---- MODULE Spec2Model ----
(***************************************************************************)
(* Model of the calendar / schedule admin module: the route handlers of   *)
(* src/src/app/api, the authorization helpers (lib/authorize), the error  *)
(* mapping (lib/errors), the session resolver (lib/auth) and the fixed     *)
(* window rate limiter (lib/rateLimit).                                    *)
(*                                                                         *)
(* A handler runs in a request slot.  Every step of a handler is one       *)
(* database statement together with the synchronous code around it, so    *)
(* that two handlers interleave exactly at their await points.             *)
(***************************************************************************)
EXTENDS Integers, FiniteSets, Sequences, TLC

(***************************************************************************)
(* Bounds of the model.                                                    *)
(***************************************************************************)
MaxEntries == 2
MaxItems == 2
NumDays == 2
MaxMinute == 3
TicksPerDay == 2
MaxTicks == 2
MaxOver == 50

(***************************************************************************)
(* The data the requests are drawn from.                                   *)
(***************************************************************************)
UserIds == {"a1", "a2", "u1"}
Ghost == "ghost"
Cookies == UserIds \cup {Ghost}
Modules == {"meetings", "deadlines", "schedule"}
Levels == {"NONE", "VIEW", "EDIT"}
Days == 1..NumDays
Minutes == 1..MaxMinute
Slots == {1, 2}
TzOffsets == {0, 1}

VARIABLES
    tz,          \* offset of the server's local time from UTC, in ticks
    rateLimitEnabled, \* env.RATE_LIMIT_ENABLED
    users,       \* User table: id -> role
    perms,       \* UserPermission table: <<userId, module>> -> [myLevel, allLevel]
    items,       \* CalendarItem table: id -> row
    parts,       \* CalendarItemParticipant table: set of <<itemId, userId>>
    entries,     \* ScheduleEntry table: id -> row
    nextItem,    \* next fresh CalendarItem id
    nextEntry,   \* next fresh ScheduleEntry id
    store,       \* rate limiter store: key -> [count, resetAt]
    now,         \* Date.now()
    req,         \* request slots: the handler running in each and its locals
    resp         \* the response sent last

vars == <<tz, rateLimitEnabled, users, perms, items, parts, entries,
          nextItem, nextEntry, store, now, req, resp>>

dbVars == <<users, perms, items, parts, entries, nextItem, nextEntry>>
envVars == <<tz, rateLimitEnabled>>
rlVars == <<store, now>>

(***************************************************************************)
(* Tables are functions whose domain is the set of primary keys present.   *)
(* A lookup returns a set: empty when there is no row, else the one row.   *)
(***************************************************************************)
Lookup(table, key) == IF key \in DOMAIN table THEN {table[key]} ELSE {}

Put(table, key, row) == [k \in DOMAIN table \cup {key} |->
                            IF k = key THEN row ELSE table[k]]

Remove(table, key) == [k \in DOMAIN table \ {key} |-> table[k]]

(***************************************************************************)
(* lib/errors: the error classes and createErrorResponse.                  *)
(***************************************************************************)
AppError(statusCode, code) == [cls |-> "AppError", statusCode |-> statusCode, code |-> code]
ValidationError(code) == AppError(400, code)
NotFoundError(code) == AppError(404, code)
ForbiddenError(code) == AppError(403, code)
PlainError(code) == [cls |-> "Error", statusCode |-> 0, code |-> code]
PrismaError(code) == [cls |-> "Prisma", statusCode |-> 0, code |-> code]
ZodError(code) == [cls |-> "Zod", statusCode |-> 0, code |-> code]

createErrorResponse(error) ==
    IF error.cls = "AppError" THEN error.statusCode
    ELSE IF error.cls = "Zod" THEN 400
    ELSE 500

(***************************************************************************)
(* lib/auth: the session resolver and the role gates.  A gate returns the  *)
(* set of errors it throws: empty when the request passes.                 *)
(***************************************************************************)
\* variant: any cookie value that is not empty names the current user
getCurrentUser_AnyCookie(cookie) == IF cookie # "" THEN {cookie} ELSE {}

getCurrentUser(cookie) == IF cookie \in DOMAIN users THEN {cookie} ELSE {}

isAdmin(user) == user # {} /\ \A u \in user : users[u] = "ADMIN"

requireAdmin(cookie) ==
    IF getCurrentUser(cookie) = {} THEN {PlainError("Unauthorized")}
    ELSE IF ~isAdmin(getCurrentUser(cookie)) THEN {PlainError("Forbidden")}
    ELSE {}

requireAuth(cookie) ==
    IF getCurrentUser(cookie) = {} THEN {PlainError("Unauthorized")}
    ELSE {}

(***************************************************************************)
(* Dates.  A timestamp counts ticks since the epoch in UTC; a request      *)
(* names a day as YYYY-MM-DD, which new Date() reads as UTC midnight, and  *)
(* setHours(0,0,0,0) moves a timestamp back to midnight of the server's    *)
(* local day.                                                              *)
(***************************************************************************)
NewDate(day) == day * TicksPerDay

SetHoursZero(ts) == ts - ((ts + tz) % TicksPerDay)

EndOfDay(startOfDay) == startOfDay + TicksPerDay

InDay(ts, startOfDay) == ts >= startOfDay /\ ts < EndOfDay(startOfDay)

(***************************************************************************)
(* Request slots and responses.                                            *)
(***************************************************************************)
Idle == [op |-> "idle", pc |-> "idle", cookie |-> "-", id |-> 0,
         ex |-> {}, body |-> {}, filter |-> "-", remaining |-> -1]

\* resp is the response the last step sent, NoResp when it sent none
NoResp == [op |-> "none", cookie |-> "-", id |-> 0, body |-> {}, status |-> 0,
           code |-> "-", ids |-> {}, createdBy |-> {}, retryAfter |-> FALSE,
           remaining |-> -1, setCookie |-> {}, users |-> {}, perms |-> {},
           elapsed |-> -1, compared |-> {}]

Reply(slot, status, code) ==
    [NoResp EXCEPT !.op = slot.op, !.cookie = slot.cookie, !.id = slot.id,
                   !.body = slot.body, !.status = status, !.code = code]

ReplyError(slot, error) == Reply(slot, createErrorResponse(error), error.code)

ReplyThrown(slot, errors) == ReplyError(slot, CHOOSE e \in errors : TRUE)

\* a success response carries X-RateLimit-Remaining
ReplyOk(slot, status) == [Reply(slot, status, "ok") EXCEPT !.remaining = slot.remaining]

Finish(s, r) == /\ req' = [req EXCEPT ![s] = Idle]
                /\ resp' = r

\* a step that sends no response
Goto(s, slot) == /\ req' = [req EXCEPT ![s] = slot]
                 /\ resp' = NoResp

(***************************************************************************)
(* lib/rateLimit: the fixed window counter.                                *)
(***************************************************************************)
StrictMax == 5
ModerateMax == 100
WindowMs == 60000

strict == [max |-> StrictMax, window |-> WindowMs]
moderate == [max |-> ModerateMax, window |-> WindowMs]

\* variant: one counter per client, whatever the tier
RateKey_NoTier(client, config) == <<client, 0, config.window>>

\* key = `${identifier}:${config.max}:${config.window}`; the last two fields
\* are numbers, so two keys are equal exactly when all three parts are
RateKey(client, config) == <<client, config.max, config.window>>

\* variant: every rejected request starts the window over
checkRateLimit_Sliding(client, config) ==
    LET key == RateKey(client, config)
        entry == Lookup(store, key)
    IN  IF ~rateLimitEnabled
        THEN [allowed |-> TRUE, remaining |-> config.max, store |-> store]
        ELSE IF entry = {} \/ (\E e \in entry : e.resetAt < now)
        THEN [allowed |-> TRUE, remaining |-> config.max - 1,
              store |-> Put(store, key, [count |-> 1, resetAt |-> now + config.window])]
        ELSE LET count == store[key].count + 1
             IN  [allowed |-> ~(count > config.max),
                  remaining |-> IF count > config.max THEN -1 ELSE config.max - count,
                  store |-> Put(store, key,
                                [count |-> count,
                                 resetAt |-> IF count > config.max THEN now + config.window
                                             ELSE store[key].resetAt])]

\* variant: the request that reaches max is already rejected
checkRateLimit_AtMax(client, config) ==
    LET key == RateKey(client, config)
        entry == Lookup(store, key)
    IN  IF ~rateLimitEnabled
        THEN [allowed |-> TRUE, remaining |-> config.max, store |-> store]
        ELSE IF entry = {} \/ (\E e \in entry : e.resetAt < now)
        THEN [allowed |-> TRUE, remaining |-> config.max - 1,
              store |-> Put(store, key, [count |-> 1, resetAt |-> now + config.window])]
        ELSE LET count == store[key].count + 1
             IN  [allowed |-> ~(count >= config.max),
                  remaining |-> IF count >= config.max THEN -1 ELSE config.max - count,
                  store |-> Put(store, key, [store[key] EXCEPT !.count = count])]

\* checkRateLimit: whether the request is let through, the remaining quota
\* it reports, and the store it leaves behind
checkRateLimit(client, config) ==
    LET key == RateKey(client, config)
        entry == Lookup(store, key)
    IN  IF ~rateLimitEnabled
        THEN [allowed |-> TRUE, remaining |-> config.max, store |-> store]
        ELSE IF entry = {} \/ (\E e \in entry : e.resetAt < now)
        THEN [allowed |-> TRUE, remaining |-> config.max - 1,
              store |-> Put(store, key, [count |-> 1, resetAt |-> now + config.window])]
        ELSE LET count == store[key].count + 1
             IN  [allowed |-> ~(count > config.max),
                  remaining |-> IF count > config.max THEN -1 ELSE config.max - count,
                  store |-> Put(store, key, [store[key] EXCEPT !.count = count])]

RateLimited(slot, retryAfter) ==
    [Reply(slot, 429, "RateLimit") EXCEPT !.retryAfter = retryAfter]

\* variant: the sweep also drops a window that ends at this very moment
Sweep_AtReset ==
    /\ store' = [k \in {k \in DOMAIN store : ~(store[k].resetAt <= now)} |-> store[k]]
    /\ store' # store
    /\ UNCHANGED <<now, dbVars, envVars, req, resp>>

\* the setInterval callback that drops the windows that are over
Sweep ==
    /\ store' = [k \in {k \in DOMAIN store : ~(store[k].resetAt < now)} |-> store[k]]
    /\ store' # store
    /\ UNCHANGED <<now, dbVars, envVars, req, resp>>

\* the clock moves on by one window length
Tick ==
    /\ now < MaxTicks * WindowMs
    /\ now' = now + WindowMs
    /\ UNCHANGED <<store, dbVars, envVars, req, resp>>

(***************************************************************************)
(* lib/authorize: the list filters and the per-resource checks.  A filter  *)
(* is the set of users the rows are restricted to; the empty set is the    *)
(* empty where-clause {} (no restriction).                                 *)
(***************************************************************************)
\* variant: the filter only looks for a permission row, whatever its level
getScheduleEntriesFilter_AnyRow(user) ==
    IF Lookup(perms, <<user, "schedule">>) # {} THEN {} ELSE {user}

\* variant: an administrator is never restricted
getScheduleEntriesFilter_AdminAll(user) ==
    LET permission == Lookup(perms, <<user, "schedule">>)
    IN  IF \/ \E p \in permission : p.allLevel = "VIEW" \/ p.allLevel = "EDIT"
           \/ Lookup(users, user) = {"ADMIN"}
        THEN {}
        ELSE {user}

getScheduleEntriesFilter(user) ==
    LET permission == Lookup(perms, <<user, "schedule">>)
    IN  IF \E p \in permission : p.allLevel = "VIEW" \/ p.allLevel = "EDIT"
        THEN {}
        ELSE {user}

\* variant: the filter looks at myLevel
getCalendarItemsFilter_MyLevel(user) ==
    LET permission == Lookup(perms, <<user, "meetings">>)
    IN  IF \E p \in permission : p.myLevel = "VIEW" \/ p.myLevel = "EDIT"
        THEN {}
        ELSE {user}

\* variant: the row of the deadlines module opens the list as well
getCalendarItemsFilter_Deadlines(user) ==
    LET permission == Lookup(perms, <<user, "meetings">>) \cup Lookup(perms, <<user, "deadlines">>)
    IN  IF \E p \in permission : p.allLevel = "VIEW" \/ p.allLevel = "EDIT"
        THEN {}
        ELSE {user}

getCalendarItemsFilter(user) ==
    LET permission == Lookup(perms, <<user, "meetings">>)
    IN  IF \E p \in permission : p.allLevel = "VIEW" \/ p.allLevel = "EDIT"
        THEN {}
        ELSE {user}

\* variant: a user without a row is allowed
checkCalendarPermission_NoRowAllows(user, itemCreatedById, requiredLevel) ==
    LET permission == Lookup(perms, <<user, "meetings">>)
    IN  IF user = itemCreatedById THEN TRUE
        ELSE IF permission = {} THEN TRUE
        ELSE \E p \in permission :
                \/ requiredLevel = "VIEW" /\ p.allLevel = "VIEW"
                \/ requiredLevel = "VIEW" /\ p.allLevel = "EDIT"
                \/ requiredLevel = "EDIT" /\ p.allLevel = "EDIT"

checkCalendarPermission(user, itemCreatedById, requiredLevel) ==
    LET permission == Lookup(perms, <<user, "meetings">>)
    IN  IF user = itemCreatedById THEN TRUE
        ELSE IF permission = {} THEN FALSE
        ELSE \E p \in permission :
                \/ requiredLevel = "VIEW" /\ p.allLevel = "VIEW"
                \/ requiredLevel = "VIEW" /\ p.allLevel = "EDIT"
                \/ requiredLevel = "EDIT" /\ p.allLevel = "EDIT"

isCalendarItemParticipant(userId, itemId) == <<itemId, userId>> \in parts

\* variant: a participant passes whatever the required level
requireCalendarItemAccess_ParticipantEdits(user, itemId, requiredLevel) ==
    LET item == Lookup(items, itemId)
    IN  IF item = {} THEN {NotFoundError("NotFound")}
        ELSE IF \E i \in item : user = i.createdById THEN {}
        ELSE IF isCalendarItemParticipant(user, itemId) THEN {}
        ELSE IF \E i \in item : checkCalendarPermission(user, i.createdById, requiredLevel) THEN {}
        ELSE {ForbiddenError("Forbidden")}

\* the set of errors requireCalendarItemAccess throws
requireCalendarItemAccess(user, itemId, requiredLevel) ==
    LET item == Lookup(items, itemId)
    IN  IF item = {} THEN {NotFoundError("NotFound")}
        ELSE IF \E i \in item : user = i.createdById THEN {}
        ELSE IF requiredLevel = "VIEW" /\ isCalendarItemParticipant(user, itemId) THEN {}
        ELSE IF \E i \in item : checkCalendarPermission(user, i.createdById, requiredLevel) THEN {}
        ELSE {ForbiddenError("Forbidden")}

\* the set of errors requireScheduleEntryAccess throws
requireScheduleEntryAccess(user, entryId) ==
    LET entry == Lookup(entries, entryId)
    IN  IF entry = {} THEN {NotFoundError("NotFound")}
        ELSE IF \E e \in entry : user # e.userId /\ users[user] # "ADMIN"
        THEN {ForbiddenError("Forbidden")}
        ELSE {}

(***************************************************************************)
(* lib/validations/schedule.  A body is a record whose optional fields     *)
(* are sets of at most one value.  A strict schema rejects a body with a   *)
(* key it does not know (createdById), a stripping one drops the key.      *)
(***************************************************************************)
CreateScheduleEntrySchema(body, strictSchema) ==
    /\ body.endTime > body.startTime
    /\ strictSchema => body.createdById = {}

UpdateScheduleEntrySchema(body, strictSchema) ==
    /\ \A st \in body.startTime, en \in body.endTime : en > st
    /\ strictSchema => body.createdById = {}

(***************************************************************************)
(* The ScheduleEntry table with its constraints.  Each operator gives the  *)
(* set of errors the statement throws.                                     *)
(***************************************************************************)
ScheduleEntryViolations(id, row) ==
    IF row.userId \notin DOMAIN users \/ row.createdById \notin DOMAIN users
    THEN {PrismaError("P2003")}    \* ScheduleEntry_userId_fkey
    ELSE IF \E e \in DOMAIN entries \ {id} :
                entries[e].date = row.date /\ entries[e].userId = row.userId
    THEN {PrismaError("P2002")}    \* ScheduleEntry_date_userId_key
    ELSE {}

ScheduleEntryUpdateErrors(id, row) ==
    IF id \notin DOMAIN entries THEN {PrismaError("P2025")}
    ELSE ScheduleEntryViolations(id, row)

Opt(field, stored) == IF field = {} THEN stored ELSE CHOOSE v \in field : TRUE

(***************************************************************************)
(* GET /api/schedule                                                       *)
(***************************************************************************)
ScheduleGET_Filter(s, client, cookie, date) ==
    LET slot == [Idle EXCEPT !.op = "scheduleGET", !.cookie = cookie, !.body = date]
        rl == checkRateLimit(client, moderate)
    IN  /\ req[s] = Idle
        /\ store' = rl.store
        /\ UNCHANGED <<now, dbVars, envVars>>
        /\ IF ~rl.allowed THEN Finish(s, RateLimited(slot, FALSE))
           ELSE IF requireAuth(cookie) # {} THEN Finish(s, ReplyThrown(slot, requireAuth(cookie)))
           ELSE IF date = {} THEN Finish(s, ReplyError(slot, ValidationError("DateRequired")))
           ELSE Goto(s, [slot EXCEPT !.pc = "findMany", !.remaining = rl.remaining,
                                     !.filter = getScheduleEntriesFilter(cookie)])

\* variant: the restriction is on the entry's creator
ScheduleFindMany_ByCreator(authFilter, date) ==
    LET startOfDay == SetHoursZero(NewDate(date))
    IN  {e \in DOMAIN entries :
            /\ authFilter = {} \/ entries[e].createdById \in authFilter
            /\ InDay(entries[e].date, startOfDay)}

ScheduleFindMany(authFilter, date) ==
    LET startOfDay == SetHoursZero(NewDate(date))
    IN  {e \in DOMAIN entries :
            /\ authFilter = {} \/ entries[e].userId \in authFilter
            /\ InDay(entries[e].date, startOfDay)}

ScheduleGET_FindMany(s) ==
    /\ req[s].op = "scheduleGET" /\ req[s].pc = "findMany"
    /\ UNCHANGED <<rlVars, dbVars, envVars>>
    /\ Finish(s, [ReplyOk(req[s], 200) EXCEPT
                    !.ids = UNION {ScheduleFindMany(req[s].filter, d) : d \in req[s].body}])

(***************************************************************************)
(* POST /api/schedule                                                      *)
(***************************************************************************)
\* variant: the pre-check compares the exact timestamp of the request
SchedulePOST_existingEntry_Exact(body) ==
    {e \in DOMAIN entries :
        entries[e].userId = body.userId /\ entries[e].date = NewDate(body.date)}

SchedulePOST_existingEntry(body) ==
    LET entryDate == SetHoursZero(NewDate(body.date))
    IN  {e \in DOMAIN entries :
            /\ entries[e].userId = body.userId
            /\ InDay(entries[e].date, entryDate)}

SchedulePOST_FindFirst(s, client, cookie, body, strictSchema) ==
    LET slot == [Idle EXCEPT !.op = "schedulePOST", !.cookie = cookie, !.body = {body}]
        rl == checkRateLimit(client, moderate)
        existingEntry == SchedulePOST_existingEntry(body)
    IN  /\ req[s] = Idle
        /\ nextEntry + Cardinality({t \in Slots : req[t].op = "schedulePOST"}) <= MaxEntries
        /\ store' = rl.store
        /\ UNCHANGED <<now, dbVars, envVars>>
        /\ IF ~rl.allowed THEN Finish(s, RateLimited(slot, FALSE))
           ELSE IF requireAdmin(cookie) # {} THEN Finish(s, ReplyThrown(slot, requireAdmin(cookie)))
           ELSE IF ~CreateScheduleEntrySchema(body, strictSchema)
           THEN Finish(s, ReplyError(slot, ValidationError("InvalidBody")))
           ELSE IF existingEntry # {}
           THEN Finish(s, ReplyError(slot, ValidationError("Conflict")))
           ELSE Goto(s, [slot EXCEPT !.pc = "create", !.remaining = rl.remaining])

SchedulePOST_Row(user, body) ==
    [date |-> SetHoursZero(NewDate(body.date)), userId |-> body.userId,
     startTime |-> body.startTime, endTime |-> body.endTime,
     createdById |-> user]

SchedulePOST_Create(s) ==
    /\ req[s].op = "schedulePOST" /\ req[s].pc = "create"
    /\ \E body \in req[s].body :
        LET row == SchedulePOST_Row(req[s].cookie, body)
            thrown == ScheduleEntryViolations(nextEntry, row)
        IN  IF thrown # {}
            THEN /\ Finish(s, ReplyThrown(req[s], thrown))
                 /\ UNCHANGED <<rlVars, dbVars, envVars>>
            ELSE /\ entries' = Put(entries, nextEntry, row)
                 /\ nextEntry' = nextEntry + 1
                 /\ Finish(s, [ReplyOk(req[s], 201) EXCEPT !.id = nextEntry,
                                    !.ids = {nextEntry}, !.createdBy = {row.createdById}])
                 /\ UNCHANGED <<rlVars, envVars, users, perms, items, parts, nextItem>>

(***************************************************************************)
(* PATCH /api/schedule/:id                                                 *)
(***************************************************************************)
\* variant: the entry is looked up before the role is checked
SchedulePATCH_FindUnique_LookupFirst(s, client, cookie, id, body, strictSchema) ==
    LET slot == [Idle EXCEPT !.op = "schedulePATCH", !.cookie = cookie, !.id = id,
                             !.body = {body}]
        rl == checkRateLimit(client, moderate)
        existingEntry == Lookup(entries, id)
    IN  /\ req[s] = Idle
        /\ store' = rl.store
        /\ UNCHANGED <<now, dbVars, envVars>>
        /\ IF ~rl.allowed THEN Finish(s, RateLimited(slot, FALSE))
           ELSE IF existingEntry = {}
           THEN Finish(s, ReplyError(slot, PlainError("NotFound")))
           ELSE IF requireAdmin(cookie) # {} THEN Finish(s, ReplyThrown(slot, requireAdmin(cookie)))
           ELSE IF ~UpdateScheduleEntrySchema(body, strictSchema)
           THEN Finish(s, ReplyError(slot, ValidationError("InvalidBody")))
           ELSE Goto(s, [slot EXCEPT !.pc = "findFirst", !.remaining = rl.remaining,
                                     !.ex = existingEntry])

SchedulePATCH_FindUnique(s, client, cookie, id, body, strictSchema) ==
    LET slot == [Idle EXCEPT !.op = "schedulePATCH", !.cookie = cookie, !.id = id,
                             !.body = {body}]
        rl == checkRateLimit(client, moderate)
        existingEntry == Lookup(entries, id)
    IN  /\ req[s] = Idle
        /\ store' = rl.store
        /\ UNCHANGED <<now, dbVars, envVars>>
        /\ IF ~rl.allowed THEN Finish(s, RateLimited(slot, FALSE))
           ELSE IF requireAdmin(cookie) # {} THEN Finish(s, ReplyThrown(slot, requireAdmin(cookie)))
           ELSE IF existingEntry = {}
           THEN Finish(s, ReplyError(slot, PlainError("NotFound")))
           ELSE IF ~UpdateScheduleEntrySchema(body, strictSchema)
           THEN Finish(s, ReplyError(slot, ValidationError("InvalidBody")))
           ELSE Goto(s, [slot EXCEPT !.pc = "findFirst", !.remaining = rl.remaining,
                                     !.ex = existingEntry])

SchedulePATCH_conflictingEntry(id, existingEntry, body) ==
    LET newDate == SetHoursZero(Opt({NewDate(d) : d \in body.date}, existingEntry.date))
        newUserId == Opt(body.userId, existingEntry.userId)
    IN  {e \in DOMAIN entries \ {id} :
            /\ entries[e].userId = newUserId
            /\ InDay(entries[e].date, newDate)}

SchedulePATCH_FindFirst(s) ==
    /\ req[s].op = "schedulePATCH" /\ req[s].pc = "findFirst"
    /\ UNCHANGED <<rlVars, dbVars, envVars>>
    /\ \E body \in req[s].body, existingEntry \in req[s].ex :
        LET conflictingEntry == SchedulePATCH_conflictingEntry(req[s].id, existingEntry, body)
            finalStartTime == Opt(body.startTime, existingEntry.startTime)
            finalEndTime == Opt(body.endTime, existingEntry.endTime)
        IN  IF (body.date # {} \/ body.userId # {}) /\ conflictingEntry # {}
            THEN Finish(s, ReplyError(req[s], ValidationError("Conflict")))
            ELSE IF finalEndTime <= finalStartTime
            THEN Finish(s, ReplyError(req[s], ValidationError("TimeRange")))
            ELSE Goto(s, [req[s] EXCEPT !.pc = "update", !.ex = {}])

\* variant: a time the body leaves out is written as 0
SchedulePATCH_Row_Defaults(stored, body) ==
    [stored EXCEPT !.date = Opt({NewDate(d) : d \in body.date}, stored.date),
                   !.userId = Opt(body.userId, stored.userId),
                   !.startTime = Opt(body.startTime, 0),
                   !.endTime = Opt(body.endTime, 0)]

SchedulePATCH_Row(stored, body) ==
    [stored EXCEPT !.date = Opt({NewDate(d) : d \in body.date}, stored.date),
                   !.userId = Opt(body.userId, stored.userId),
                   !.startTime = Opt(body.startTime, stored.startTime),
                   !.endTime = Opt(body.endTime, stored.endTime)]

SchedulePATCH_Update(s) ==
    /\ req[s].op = "schedulePATCH" /\ req[s].pc = "update"
    /\ \E body \in req[s].body :
        LET id == req[s].id
            row == SchedulePATCH_Row(entries[id], body)
            thrown == ScheduleEntryUpdateErrors(id, row)
        IN  IF thrown # {}
            THEN /\ Finish(s, ReplyThrown(req[s], thrown))
                 /\ UNCHANGED <<rlVars, dbVars, envVars>>
            ELSE /\ entries' = Put(entries, id, row)
                 /\ Finish(s, [ReplyOk(req[s], 200) EXCEPT !.ids = {id},
                                    !.createdBy = {row.createdById}])
                 /\ UNCHANGED <<rlVars, envVars, users, perms, items, parts,
                                nextItem, nextEntry>>

(***************************************************************************)
(* DELETE /api/schedule/:id                                                *)
(***************************************************************************)
ScheduleDELETE_FindUnique(s, client, cookie, id) ==
    LET slot == [Idle EXCEPT !.op = "scheduleDELETE", !.cookie = cookie, !.id = id]
        rl == checkRateLimit(client, moderate)
    IN  /\ req[s] = Idle
        /\ store' = rl.store
        /\ UNCHANGED <<now, dbVars, envVars>>
        /\ IF ~rl.allowed THEN Finish(s, RateLimited(slot, FALSE))
           ELSE IF requireAdmin(cookie) # {} THEN Finish(s, ReplyThrown(slot, requireAdmin(cookie)))
           ELSE IF Lookup(entries, id) = {}
           THEN Finish(s, ReplyError(slot, PlainError("NotFound")))
           ELSE Goto(s, [slot EXCEPT !.pc = "delete", !.remaining = rl.remaining])

ScheduleDELETE_Delete(s) ==
    /\ req[s].op = "scheduleDELETE" /\ req[s].pc = "delete"
    /\ IF req[s].id \notin DOMAIN entries
       THEN /\ Finish(s, ReplyError(req[s], PrismaError("P2025")))
            /\ UNCHANGED <<rlVars, dbVars, envVars>>
       ELSE /\ entries' = Remove(entries, req[s].id)
            /\ Finish(s, [ReplyOk(req[s], 200) EXCEPT !.ids = {req[s].id}])
            /\ UNCHANGED <<rlVars, envVars, users, perms, items, parts,
                           nextItem, nextEntry>>

(***************************************************************************)
(* lib/validations/calendar.                                               *)
(***************************************************************************)
ItemTypes == {"MEETING", "DEADLINE"}
ItemStatuses == {"DRAFT", "CONFIRMED"}

CreateCalendarItemSchema(body, strictSchema) ==
    /\ body.type \in ItemTypes
    /\ body.status \in ItemStatuses
    /\ strictSchema => body.createdById = {}

UpdateCalendarItemSchema(body, strictSchema) ==
    /\ body.type \subseteq ItemTypes
    /\ body.status \subseteq ItemStatuses
    /\ strictSchema => body.createdById = {}

\* validatedBody.data of the update schema: the keys the schema knows
UpdateCalendarItemData(body) == [body EXCEPT !.createdById = {}]

GetCalendarItemsSchema(query) ==
    /\ query.type \subseteq ItemTypes
    /\ query.status \subseteq ItemStatuses

(***************************************************************************)
(* The CalendarItem and CalendarItemParticipant tables.                    *)
(***************************************************************************)
Range(seq) == {seq[i] : i \in DOMAIN seq}

HasDuplicate(seq) == \E i, j \in DOMAIN seq : i # j /\ seq[i] = seq[j]

\* variant: the participant table without its foreign key to the item
ParticipantViolations_NoItemKey(itemExists, itemId, userIds) ==
    IF ~(Range(userIds) \subseteq DOMAIN users)
    THEN {PrismaError("P2003")}
    ELSE IF HasDuplicate(userIds) \/ \E u \in Range(userIds) : <<itemId, u>> \in parts
    THEN {PrismaError("P2002")}
    ELSE {}

\* variant: createMany with skipDuplicates
ParticipantViolations_SkipDuplicates(itemExists, itemId, userIds) ==
    IF ~itemExists \/ ~(Range(userIds) \subseteq DOMAIN users)
    THEN {PrismaError("P2003")}
    ELSE {}

\* createMany / nested create of the participants of one item
ParticipantViolations(itemExists, itemId, userIds) ==
    IF ~itemExists \/ ~(Range(userIds) \subseteq DOMAIN users)
    THEN {PrismaError("P2003")}   \* CalendarItemParticipant_itemId_fkey, _userId_fkey
    ELSE IF HasDuplicate(userIds) \/ \E u \in Range(userIds) : <<itemId, u>> \in parts
    THEN {PrismaError("P2002")}   \* CalendarItemParticipant_itemId_userId_key
    ELSE {}

\* a title is a tuple of characters; contains with mode "insensitive"
LowerChar(c) == IF c = "A" THEN "a" ELSE IF c = "B" THEN "b" ELSE c

Lower(text) == [i \in DOMAIN text |-> LowerChar(text[i])]

Contains(text, search) ==
    \E i \in 1..(Len(text) - Len(search) + 1) :
        SubSeq(Lower(text), i, i + Len(search) - 1) = Lower(search)

(***************************************************************************)
(* GET /api/calendar/items.  query holds the search parameters of the URL; *)
(* the handler reads from, to, type, status and search and no other.       *)
(***************************************************************************)
\* take: the most rows one findMany returns
MaxRows == 1000

CalendarGET_Filter(s, client, cookie, query) ==
    LET slot == [Idle EXCEPT !.op = "calendarGET", !.cookie = cookie, !.body = {query}]
        rl == checkRateLimit(client, moderate)
    IN  /\ req[s] = Idle
        /\ store' = rl.store
        /\ UNCHANGED <<now, dbVars, envVars>>
        /\ IF ~rl.allowed THEN Finish(s, RateLimited(slot, TRUE))
           ELSE IF requireAuth(cookie) # {} THEN Finish(s, ReplyThrown(slot, requireAuth(cookie)))
           ELSE IF ~GetCalendarItemsSchema(query)
           THEN Finish(s, ReplyError(slot, ValidationError("InvalidQuery")))
           ELSE Goto(s, [slot EXCEPT !.pc = "findMany", !.remaining = rl.remaining,
                                     !.filter = getCalendarItemsFilter(cookie)])

\* the where-clause: the authorization filter spread first, then the query's keys
CalendarFindMany(authFilter, query) ==
    {i \in DOMAIN items :
        /\ \/ authFilter = {}
           \/ items[i].createdById \in authFilter
           \/ \E u \in authFilter : <<i, u>> \in parts
        /\ \A from \in query.from : items[i].startAt >= from
        /\ \A to \in query.to : items[i].startAt <= to
        /\ \A type \in query.type : items[i].type = type
        /\ \A status \in query.status : items[i].status = status
        /\ \A search \in query.search : Contains(items[i].title, search)}

CalendarGET_FindMany(s) ==
    /\ req[s].op = "calendarGET" /\ req[s].pc = "findMany"
    /\ UNCHANGED <<rlVars, dbVars, envVars>>
    /\ \E query \in req[s].body :
        Finish(s, [ReplyOk(req[s], 200) EXCEPT !.ids = CalendarFindMany(req[s].filter, query)])

(***************************************************************************)
(* POST /api/calendar/items                                                *)
(***************************************************************************)
\* variant: the body's createdById is spread into the row
CalendarPOST_Row_FromBody(user, body) ==
    [type |-> body.type, title |-> body.title, startAt |-> body.startAt,
     status |-> body.status, createdById |-> Opt(body.createdById, user)]

CalendarPOST_Row(user, body) ==
    [type |-> body.type, title |-> body.title, startAt |-> body.startAt,
     status |-> body.status, createdById |-> user]

CalendarPOST_Create(s, client, cookie, body, strictSchema) ==
    LET slot == [Idle EXCEPT !.op = "calendarPOST", !.cookie = cookie, !.body = {body}]
        rl == checkRateLimit(client, moderate)
        live == [slot EXCEPT !.remaining = rl.remaining]
        row == CalendarPOST_Row(cookie, body)
        thrown == ParticipantViolations(TRUE, nextItem, body.participants)
    IN  /\ req[s] = Idle
        /\ nextItem <= MaxItems
        /\ store' = rl.store
        /\ UNCHANGED <<now, envVars, users, perms, entries, nextEntry>>
        /\ IF ~rl.allowed
           THEN Finish(s, RateLimited(slot, FALSE)) /\ UNCHANGED <<items, parts, nextItem>>
           ELSE IF requireAdmin(cookie) # {}
           THEN Finish(s, ReplyThrown(slot, requireAdmin(cookie)))
                /\ UNCHANGED <<items, parts, nextItem>>
           ELSE IF ~CreateCalendarItemSchema(body, strictSchema)
           THEN Finish(s, ReplyError(slot, ValidationError("InvalidBody")))
                /\ UNCHANGED <<items, parts, nextItem>>
           ELSE IF thrown # {}
           THEN Finish(s, ReplyThrown(slot, thrown)) /\ UNCHANGED <<items, parts, nextItem>>
           ELSE /\ items' = Put(items, nextItem, row)
                /\ parts' = parts \cup {<<nextItem, u>> : u \in Range(body.participants)}
                /\ nextItem' = nextItem + 1
                /\ Finish(s, [ReplyOk(live, 201) EXCEPT !.id = nextItem, !.ids = {nextItem},
                                    !.createdBy = {row.createdById}])

(***************************************************************************)
(* PATCH /api/calendar/items/:id                                           *)
(***************************************************************************)
CalendarPATCH_FindUnique(s, client, cookie, id, body, strictSchema) ==
    LET slot == [Idle EXCEPT !.op = "calendarPATCH", !.cookie = cookie, !.id = id,
                             !.body = {body}]
        rl == checkRateLimit(client, moderate)
    IN  /\ req[s] = Idle
        /\ store' = rl.store
        /\ UNCHANGED <<now, dbVars, envVars>>
        /\ IF ~rl.allowed THEN Finish(s, RateLimited(slot, FALSE))
           ELSE IF requireAdmin(cookie) # {} THEN Finish(s, ReplyThrown(slot, requireAdmin(cookie)))
           ELSE IF Lookup(items, id) = {}
           THEN Finish(s, ReplyError(slot, PlainError("NotFound")))
           ELSE IF ~UpdateCalendarItemSchema(body, strictSchema)
           THEN Finish(s, ReplyError(slot, ValidationError("InvalidBody")))
           ELSE Goto(s, [slot EXCEPT !.pc = "update", !.remaining = rl.remaining])

\* data: { ...itemData, startAt, endAt }
CalendarPATCH_Row(stored, itemData) ==
    [stored EXCEPT !.type = Opt(itemData.type, stored.type),
                   !.title = Opt(itemData.title, stored.title),
                   !.startAt = Opt(itemData.startAt, stored.startAt),
                   !.status = Opt(itemData.status, stored.status),
                   !.createdById = Opt(itemData.createdById, stored.createdById)]

CalendarPATCH_Update(s) ==
    /\ req[s].op = "calendarPATCH" /\ req[s].pc = "update"
    /\ UNCHANGED <<rlVars, envVars, users, perms, parts, entries, nextItem, nextEntry>>
    /\ \E body \in req[s].body :
        LET id == req[s].id
        IN  IF id \notin DOMAIN items
            THEN Finish(s, ReplyError(req[s], PrismaError("P2025"))) /\ UNCHANGED items
            ELSE /\ items' = Put(items, id,
                                CalendarPATCH_Row(items[id], UpdateCalendarItemData(body)))
                 /\ IF body.participants = {}
                    THEN Finish(s, [ReplyOk(req[s], 200) EXCEPT !.ids = {id},
                                        !.createdBy = {items[id].createdById}])
                    ELSE Goto(s, [req[s] EXCEPT !.pc = "deleteMany"])

CalendarPATCH_DeleteMany(s) ==
    /\ req[s].op = "calendarPATCH" /\ req[s].pc = "deleteMany"
    /\ UNCHANGED <<rlVars, envVars, users, perms, items, entries, nextItem, nextEntry>>
    /\ parts' = {p \in parts : p[1] # req[s].id}
    /\ \E body \in req[s].body : \E participants \in body.participants :
        IF Len(participants) > 0
        THEN Goto(s, [req[s] EXCEPT !.pc = "createMany"])
        ELSE Goto(s, [req[s] EXCEPT !.pc = "refetch"])

CalendarPATCH_CreateMany(s) ==
    /\ req[s].op = "calendarPATCH" /\ req[s].pc = "createMany"
    /\ UNCHANGED <<rlVars, envVars, users, perms, items, entries, nextItem, nextEntry>>
    /\ \E body \in req[s].body : \E participants \in body.participants :
        LET id == req[s].id
            thrown == ParticipantViolations(id \in DOMAIN items, id, participants)
        IN  IF thrown # {}
            THEN Finish(s, ReplyThrown(req[s], thrown)) /\ UNCHANGED parts
            ELSE /\ parts' = parts \cup {<<id, u>> : u \in Range(participants)}
                 /\ Goto(s, [req[s] EXCEPT !.pc = "refetch"])

CalendarPATCH_Refetch(s) ==
    /\ req[s].op = "calendarPATCH" /\ req[s].pc = "refetch"
    /\ UNCHANGED <<rlVars, dbVars, envVars>>
    /\ Finish(s, [ReplyOk(req[s], 200) EXCEPT
                    !.ids = {req[s].id} \cap DOMAIN items,
                    !.createdBy = {items[i].createdById : i \in {req[s].id} \cap DOMAIN items}])

(***************************************************************************)
(* DELETE /api/calendar/items/:id                                          *)
(***************************************************************************)
CalendarDELETE_FindUnique(s, client, cookie, id) ==
    LET slot == [Idle EXCEPT !.op = "calendarDELETE", !.cookie = cookie, !.id = id]
        rl == checkRateLimit(client, moderate)
    IN  /\ req[s] = Idle
        /\ store' = rl.store
        /\ UNCHANGED <<now, dbVars, envVars>>
        /\ IF ~rl.allowed THEN Finish(s, RateLimited(slot, FALSE))
           ELSE IF requireAdmin(cookie) # {} THEN Finish(s, ReplyThrown(slot, requireAdmin(cookie)))
           ELSE IF Lookup(items, id) = {}
           THEN Finish(s, ReplyError(slot, PlainError("NotFound")))
           ELSE Goto(s, [slot EXCEPT !.pc = "delete", !.remaining = rl.remaining])

\* the participants go with the item (ON DELETE CASCADE)
CalendarDELETE_Delete(s) ==
    /\ req[s].op = "calendarDELETE" /\ req[s].pc = "delete"
    /\ UNCHANGED <<rlVars, envVars, users, perms, entries, nextItem, nextEntry>>
    /\ IF req[s].id \notin DOMAIN items
       THEN Finish(s, ReplyError(req[s], PrismaError("P2025"))) /\ UNCHANGED <<items, parts>>
       ELSE /\ items' = Remove(items, req[s].id)
            /\ parts' = {p \in parts : p[1] # req[s].id}
            /\ Finish(s, [ReplyOk(req[s], 200) EXCEPT !.ids = {req[s].id}])

(***************************************************************************)
(* PUT /api/admin/permissions                                              *)
(***************************************************************************)
updatePermissionsSchema(body) ==
    /\ body.userId # ""
    /\ \A perm \in body.permissions :
          perm.module \in Modules /\ perm.myLevel \in Levels /\ perm.allLevel \in Levels

PermissionsPUT_FindUser(s, client, cookie, body) ==
    LET slot == [Idle EXCEPT !.op = "permissionsPUT", !.cookie = cookie, !.body = {body}]
        rl == checkRateLimit(client, moderate)
        live == [slot EXCEPT !.remaining = rl.remaining,
                             !.ex = body.permissions, !.pc = "upsert"]
    IN  /\ req[s] = Idle
        /\ store' = rl.store
        /\ UNCHANGED <<now, dbVars, envVars>>
        /\ IF ~rl.allowed THEN Finish(s, RateLimited(slot, FALSE))
           ELSE IF requireAdmin(cookie) # {} THEN Finish(s, ReplyThrown(slot, requireAdmin(cookie)))
           ELSE IF ~updatePermissionsSchema(body)
           THEN Finish(s, ReplyError(slot, ValidationError("InvalidBody")))
           ELSE IF Lookup(users, body.userId) = {}
           THEN Finish(s, ReplyError(slot, PlainError("UserNotFound")))
           ELSE IF body.permissions = {} THEN Finish(s, ReplyOk(live, 200))
           ELSE Goto(s, live)

\* variant: a PUT writes the levels to every module row of the user
PermissionsPUT_Upsert_AllModules(s) ==
    /\ req[s].op = "permissionsPUT" /\ req[s].pc = "upsert"
    /\ UNCHANGED <<rlVars, envVars, users, items, parts, entries, nextItem, nextEntry>>
    /\ \E body \in req[s].body, perm \in req[s].ex :
        /\ perms' = [key \in DOMAIN perms \cup {<<body.userId, m>> : m \in Modules} |->
                        IF key[1] = body.userId
                        THEN [myLevel |-> perm.myLevel, allLevel |-> perm.allLevel]
                        ELSE perms[key]]
        /\ IF req[s].ex = {perm}
           THEN Finish(s, ReplyOk(req[s], 200))
           ELSE Goto(s, [req[s] EXCEPT !.ex = req[s].ex \ {perm}])

\* the upserts of Promise.all complete one at a time, in any order
PermissionsPUT_Upsert(s) ==
    /\ req[s].op = "permissionsPUT" /\ req[s].pc = "upsert"
    /\ UNCHANGED <<rlVars, envVars, users, items, parts, entries, nextItem, nextEntry>>
    /\ \E body \in req[s].body, perm \in req[s].ex :
        /\ perms' = Put(perms, <<body.userId, perm.module>>,
                        [myLevel |-> perm.myLevel, allLevel |-> perm.allLevel])
        /\ IF req[s].ex = {perm}
           THEN Finish(s, ReplyOk(req[s], 200))
           ELSE Goto(s, [req[s] EXCEPT !.ex = req[s].ex \ {perm}])

(***************************************************************************)
(* GET /api/admin/permissions and GET /api/users                           *)
(***************************************************************************)
PermissionsGET(s, client, cookie) ==
    LET slot == [Idle EXCEPT !.op = "permissionsGET", !.cookie = cookie]
        rl == checkRateLimit(client, moderate)
        live == [slot EXCEPT !.remaining = rl.remaining]
    IN  /\ req[s] = Idle
        /\ store' = rl.store
        /\ UNCHANGED <<now, dbVars, envVars>>
        /\ IF ~rl.allowed THEN Finish(s, RateLimited(slot, FALSE))
           ELSE IF requireAdmin(cookie) # {} THEN Finish(s, ReplyThrown(slot, requireAdmin(cookie)))
           ELSE Finish(s, [ReplyOk(live, 200) EXCEPT
                             !.users = DOMAIN users,
                             !.perms = {[userId |-> k[1], module |-> k[2],
                                         myLevel |-> perms[k].myLevel,
                                         allLevel |-> perms[k].allLevel] : k \in DOMAIN perms}])

UsersGET(s, client, cookie) ==
    LET slot == [Idle EXCEPT !.op = "usersGET", !.cookie = cookie]
        rl == checkRateLimit(client, moderate)
        live == [slot EXCEPT !.remaining = rl.remaining]
    IN  /\ req[s] = Idle
        /\ store' = rl.store
        /\ UNCHANGED <<now, dbVars, envVars>>
        /\ IF ~rl.allowed THEN Finish(s, RateLimited(slot, FALSE))
           ELSE IF requireAuth(cookie) # {} THEN Finish(s, ReplyThrown(slot, requireAuth(cookie)))
           ELSE Finish(s, [ReplyOk(live, 200) EXCEPT !.users = DOMAIN users])

(***************************************************************************)
(* /api/auth: login, signup, logout, me.  A user's email stands for the    *)
(* user; "" is a string that is no email address or an empty password;     *)
(* every seeded user's password is "pw".  The database is reachable and    *)
(* initialized.                                                            *)
(***************************************************************************)
loginSchema(body) == body.email # "" /\ body.password # ""

verifyPassword(password) == password = "pw"

\* the floor of the time between the user lookup and a credential response
MinResponseTime == 200

\* a login that tells a missing user from a wrong password
LoginOutcome_UserNotFound(body, dbMs, hashMs) ==
    LET user == Lookup(users, body.email)
    IN  IF ~loginSchema(body)
        THEN [status |-> 400, code |-> "InvalidBody", setCookie |-> {},
              elapsed |-> -1, compared |-> {}]
        ELSE IF user = {}
        THEN [status |-> 404, code |-> "UserNotFound", setCookie |-> {},
              elapsed |-> MinResponseTime, compared |-> {}]
        ELSE IF ~verifyPassword(body.password)
        THEN [status |-> 401, code |-> "InvalidCredentials", setCookie |-> {},
              elapsed |-> MinResponseTime, compared |-> {"stored"}]
        ELSE [status |-> 200, code |-> "ok", setCookie |-> {body.email},
              elapsed |-> MinResponseTime, compared |-> {"stored"}]

\* what the handler does with a body once the rate limit let it through, when
\* the user lookup takes dbMs and a hash comparison hashMs: the response, the
\* hashes verifyPassword was called with, and Date.now() - startTime at the
\* response (-1 when the handler never took startTime)
LoginOutcome(body, dbMs, hashMs) ==
    LET user == Lookup(users, body.email)
        compared == IF user # {} THEN {"stored"} ELSE {}
        passwordValid == user # {} /\ verifyPassword(body.password)
        spent == dbMs + (IF user # {} THEN hashMs ELSE 0)
        elapsed == IF spent < MinResponseTime THEN MinResponseTime ELSE spent
    IN  IF ~loginSchema(body)
        THEN [status |-> 400, code |-> "InvalidBody", setCookie |-> {},
              elapsed |-> -1, compared |-> {}]
        ELSE IF user = {} \/ ~passwordValid
        THEN [status |-> 200, code |-> "InvalidCredentials", setCookie |-> {},
              elapsed |-> elapsed, compared |-> compared]
        ELSE [status |-> 200, code |-> "ok", setCookie |-> {body.email},
              elapsed |-> elapsed, compared |-> compared]

AuthLogin(s, client, body, dbMs, hashMs) ==
    LET slot == [Idle EXCEPT !.op = "login", !.body = {body}]
        rl == checkRateLimit(client, strict)
        outcome == LoginOutcome(body, dbMs, hashMs)
    IN  /\ req[s] = Idle
        /\ store' = rl.store
        /\ UNCHANGED <<now, dbVars, envVars>>
        /\ IF ~rl.allowed THEN Finish(s, RateLimited(slot, TRUE))
           ELSE Finish(s, [Reply(slot, outcome.status, outcome.code) EXCEPT
                             !.setCookie = outcome.setCookie,
                             !.elapsed = outcome.elapsed,
                             !.compared = outcome.compared])

signupSchema(body) == body.email # "" /\ body.password # ""

AuthSignup_FindUnique(s, client, body, passwordStrong) ==
    LET slot == [Idle EXCEPT !.op = "signup", !.body = {body}]
        rl == checkRateLimit(client, strict)
    IN  /\ req[s] = Idle
        /\ store' = rl.store
        /\ UNCHANGED <<now, dbVars, envVars>>
        /\ IF ~rl.allowed THEN Finish(s, RateLimited(slot, TRUE))
           ELSE IF ~signupSchema(body)
           THEN Finish(s, ReplyError(slot, ValidationError("InvalidBody")))
           ELSE IF ~passwordStrong
           THEN Finish(s, ReplyError(slot, ValidationError("WeakPassword")))
           ELSE IF Lookup(users, body.email) # {}
           THEN Finish(s, Reply(slot, 200, "RegistrationFailed"))
           ELSE Goto(s, [slot EXCEPT !.pc = "create"])

\* a create that takes the role from the payload when it has one
AuthSignup_Row_FromBody(body) == Opt(body.role, "USER")

\* the role db.user.create is given
AuthSignup_Row(body) == "USER"

AuthSignup_Create(s) ==
    /\ req[s].op = "signup" /\ req[s].pc = "create"
    /\ UNCHANGED <<rlVars, envVars, perms, items, parts, entries, nextItem, nextEntry>>
    /\ \E body \in req[s].body :
        IF body.email \in DOMAIN users
        THEN Finish(s, ReplyError(req[s], PrismaError("P2002"))) /\ UNCHANGED users
        ELSE /\ users' = Put(users, body.email, AuthSignup_Row(body))
             /\ Finish(s, [Reply(req[s], 201, "ok") EXCEPT !.setCookie = {body.email}])

AuthLogout(s, client) ==
    LET slot == [Idle EXCEPT !.op = "logout"]
        rl == checkRateLimit(client, moderate)
        live == [slot EXCEPT !.remaining = rl.remaining]
    IN  /\ req[s] = Idle
        /\ store' = rl.store
        /\ UNCHANGED <<now, dbVars, envVars>>
        /\ IF ~rl.allowed THEN Finish(s, RateLimited(slot, FALSE))
           ELSE Finish(s, [ReplyOk(live, 200) EXCEPT !.setCookie = {""}])

AuthMe(s, client, cookie) ==
    LET slot == [Idle EXCEPT !.op = "me", !.cookie = cookie]
        rl == checkRateLimit(client, moderate)
        live == [slot EXCEPT !.remaining = rl.remaining]
    IN  /\ req[s] = Idle
        /\ store' = rl.store
        /\ UNCHANGED <<now, dbVars, envVars>>
        /\ IF ~rl.allowed THEN Finish(s, RateLimited(slot, FALSE))
           ELSE Finish(s, [ReplyOk(live, 200) EXCEPT !.users = getCurrentUser(cookie)])

(***************************************************************************)
(* The initial state: the seeded users, empty tables, no request running.  *)
(***************************************************************************)
EmptyTable == [k \in {} |-> k]

InitDb ==
    /\ users = [u \in UserIds |-> IF u \in {"a1", "a2"} THEN "ADMIN" ELSE "USER"]
    /\ perms = EmptyTable
    /\ items = EmptyTable
    /\ parts = {}
    /\ entries = EmptyTable
    /\ nextItem = 1
    /\ nextEntry = 1

InitIdle ==
    /\ store = EmptyTable
    /\ now = 0
    /\ req = [s \in Slots |-> Idle]
    /\ resp = NoResp

(***************************************************************************)
(* SpecSchedule: the schedule endpoints and the permission matrix, one     *)
(* request at a time.                                                      *)
(***************************************************************************)
OptSet(S) == {{}} \cup {{x} : x \in S}

ScheduleCookies == {"a1", "u1", Ghost}
ScheduleOwners == {"a2", "u1"}
PermissionLevels == {<<"NONE", "NONE">>, <<"EDIT", "NONE">>, <<"VIEW", "VIEW">>, <<"EDIT", "EDIT">>}

PermissionBodies(targets, modules) ==
    [userId : targets,
     permissions : OptSet({[module |-> m, myLevel |-> l[1], allLevel |-> l[2]] :
                             m \in modules, l \in PermissionLevels})]

ScheduleCreateBodies ==
    [date : Days, userId : ScheduleOwners, startTime : {1}, endTime : {1, 2},
     createdById : {{}}]

ScheduleUpdateBodies ==
    [date : OptSet(Days), userId : OptSet(ScheduleOwners),
     startTime : {{}}, endTime : {{}}, createdById : {{}}]

InitSchedule ==
    /\ tz \in TzOffsets
    /\ rateLimitEnabled = FALSE
    /\ InitDb
    /\ InitIdle

NextSchedule ==
    \/ \E cookie \in ScheduleCookies, date \in OptSet(Days) :
          ScheduleGET_Filter(1, "c1", cookie, date)
    \/ ScheduleGET_FindMany(1)
    \/ \E cookie \in ScheduleCookies, body \in ScheduleCreateBodies, strictSchema \in BOOLEAN :
          SchedulePOST_FindFirst(1, "c1", cookie, body, strictSchema)
    \/ SchedulePOST_Create(1)
    \/ \E cookie \in ScheduleCookies, id \in 1..MaxEntries,
          body \in ScheduleUpdateBodies, strictSchema \in BOOLEAN :
          SchedulePATCH_FindUnique(1, "c1", cookie, id, body, strictSchema)
    \/ SchedulePATCH_FindFirst(1)
    \/ SchedulePATCH_Update(1)
    \/ \E cookie \in ScheduleCookies, id \in 1..MaxEntries :
          ScheduleDELETE_FindUnique(1, "c1", cookie, id)
    \/ ScheduleDELETE_Delete(1)
    \/ \E cookie \in ScheduleCookies, body \in PermissionBodies({"u1", Ghost}, {"schedule"}) :
          PermissionsPUT_FindUser(1, "c1", cookie, body)
    \/ PermissionsPUT_Upsert(1)

SpecSchedule == InitSchedule /\ [][NextSchedule]_vars

(***************************************************************************)
(* Properties of the schedule endpoints, one request at a time.            *)
(***************************************************************************)
\* two timestamps of the same calendar day of the server
SameDay(ts1, ts2) == (ts1 + tz) \div TicksPerDay = (ts2 + tz) \div TicksPerDay

OnRequestedDay(ts, day) == SameDay(ts, NewDate(day))

HasAllLevelNone(user, module) ==
    /\ <<user, module>> \in DOMAIN perms
    /\ perms[<<user, module>>].allLevel = "NONE"

PutTakesEffect ==
    (resp.op = "permissionsPUT" /\ resp.status = 200) =>
        \A body \in resp.body : \A perm \in body.permissions :
            /\ <<body.userId, perm.module>> \in DOMAIN perms
            /\ perms[<<body.userId, perm.module>>] =
                   [myLevel |-> perm.myLevel, allLevel |-> perm.allLevel]

ListUnderNoneIsOwn ==
    (resp.op = "scheduleGET" /\ resp.status = 200
        /\ HasAllLevelNone(resp.cookie, "schedule")) =>
        \A day \in resp.body :
            resp.ids = {e \in DOMAIN entries : /\ entries[e].userId = resp.cookie
                                               /\ OnRequestedDay(entries[e].date, day)}

\* C4: once a permissions PUT has answered, the row it names holds the levels it
\* names, and every schedule list answered while the caller's schedule row has
\* allLevel NONE holds exactly the caller's own entries of the requested day.
C4_ListAfterNone == PutTakesEffect /\ ListUnderNoneIsOwn

\* C4 witness: u1, whose schedule row was set to allLevel NONE, lists a day on
\* which another user has an entry, and gets only its own.
C4_Witness ==
    /\ resp.op = "scheduleGET" /\ resp.status = 200 /\ resp.cookie = "u1"
    /\ HasAllLevelNone("u1", "schedule")
    /\ resp.ids # {}
    /\ \E day \in resp.body : \E e \in DOMAIN entries :
          entries[e].userId # "u1" /\ OnRequestedDay(entries[e].date, day)

NoTwoEntriesOnOneDay ==
    \A e1, e2 \in DOMAIN entries :
        (e1 # e2 /\ entries[e1].userId = entries[e2].userId)
            => ~SameDay(entries[e1].date, entries[e2].date)

\* a well-formed create by an admin for a user and day that already have an entry
CreateOnTakenDay(r) ==
    /\ r.op = "schedulePOST"
    /\ isAdmin(getCurrentUser(r.cookie))
    /\ \E body \in r.body :
          /\ body.endTime > body.startTime /\ body.createdById = {}
          /\ \E e \in DOMAIN entries :
                /\ entries[e].userId = body.userId
                /\ OnRequestedDay(entries[e].date, body.date)

CreateOnTakenDayRejected ==
    CreateOnTakenDay(resp') =>
        resp'.status = 400 /\ resp'.code = "Conflict" /\ entries' = entries

\* C5: no two stored entries share user and calendar day, and a create for a
\* user and day that already have an entry is answered with the conflict error
\* and leaves the table as it was.
C5_OneEntryPerUserAndDay ==
    []NoTwoEntriesOnOneDay /\ [][CreateOnTakenDayRejected]_vars

\* C5 witness: a create was just rejected as a conflict while the entry of that
\* user and day is stored.
C5_Witness ==
    /\ resp.status = 400 /\ resp.code = "Conflict"
    /\ CreateOnTakenDay(resp)

(***************************************************************************)
(* SpecScheduleRace: two schedule writes of one user interleaving at their *)
(* await points.                                                           *)
(***************************************************************************)
RaceCreateBodies ==
    [date : Days, userId : {"u1"}, startTime : {1}, endTime : {2}, createdById : {{}}]

RaceUpdateBodies ==
    [date : {{d} : d \in Days}, userId : {{}}, startTime : {{}}, endTime : {{}},
     createdById : {{}}]

NextScheduleRace ==
    \E s \in Slots :
        \/ \E body \in RaceCreateBodies : SchedulePOST_FindFirst(s, "c1", "a1", body, FALSE)
        \/ SchedulePOST_Create(s)
        \/ \E id \in 1..MaxEntries, body \in RaceUpdateBodies :
              SchedulePATCH_FindUnique(s, "c1", "a1", id, body, FALSE)
        \/ SchedulePATCH_FindFirst(s)
        \/ SchedulePATCH_Update(s)

SpecScheduleRace == InitSchedule /\ [][NextScheduleRace]_vars

\* the user and timestamp the write step of slot s is about to store
WriteTarget(s) ==
    IF req[s].op = "schedulePOST" /\ req[s].pc = "create"
    THEN {SchedulePOST_Row(req[s].cookie, body) : body \in req[s].body}
    ELSE IF req[s].op = "schedulePATCH" /\ req[s].pc = "update" /\ req[s].id \in DOMAIN entries
    THEN {SchedulePATCH_Row(entries[req[s].id], body) : body \in req[s].body}
    ELSE {}

TakenByAnother(s, row) ==
    \E e \in DOMAIN entries \ {req[s].id} :
        entries[e].userId = row.userId /\ SameDay(entries[e].date, row.date)

\* a write that passed its pre-check and finds its user and day taken fails
LateWriteFails ==
    \A s \in Slots : \A row \in WriteTarget(s) :
        (req'[s] # req[s] /\ TakenByAnother(s, row)) =>
            resp'.status >= 400 /\ entries' = entries

OneEntryPerDayAfterRace ==
    \A e1 \in DOMAIN entries : \A e2 \in DOMAIN entries \ {e1} :
        entries[e1].userId # entries[e2].userId
            \/ ~SameDay(entries[e1].date, entries[e2].date)

\* C6: when a create and another create or a PATCH for the same user and day
\* have both passed their pre-check, the one that writes second is answered
\* with an error and stores nothing: the user keeps one entry for the day.
C6_RaceBecomesConflict == []OneEntryPerDayAfterRace /\ [][LateWriteFails]_vars

(***************************************************************************)
(* SpecScheduleTimes: creates and PATCHes of the times of one entry,       *)
(* interleaving at their await points.                                     *)
(***************************************************************************)
TimesCreateBodies ==
    [date : {1}, userId : {"u1"}, startTime : Minutes, endTime : Minutes,
     createdById : {{}}]

TimesUpdateBodies ==
    [date : {{}}, userId : {{}}, startTime : OptSet(Minutes), endTime : OptSet(Minutes),
     createdById : {{}}]

NextScheduleTimes ==
    \E s \in Slots :
        \/ \E body \in TimesCreateBodies : SchedulePOST_FindFirst(s, "c1", "a1", body, FALSE)
        \/ SchedulePOST_Create(s)
        \/ \E id \in 1..MaxEntries, body \in TimesUpdateBodies :
              SchedulePATCH_FindUnique(s, "c1", "a1", id, body, FALSE)
        \/ SchedulePATCH_FindFirst(s)
        \/ SchedulePATCH_Update(s)

SpecScheduleTimes == InitSchedule /\ [][NextScheduleTimes]_vars

\* C7: every stored schedule entry ends after it starts, under any interleaving
\* of creates and PATCHes.
C7_EndAfterStart ==
    \A e \in DOMAIN entries : entries[e].endTime > entries[e].startTime

(***************************************************************************)
(* SpecCalendar: admins create calendar items, set the permission rows of  *)
(* u1, and the items are listed; one request at a time.                    *)
(***************************************************************************)
CalendarListBodies ==
    {[type |-> "MEETING", title |-> <<"a">>, startAt |-> 1, status |-> "DRAFT",
      participants |-> p, createdById |-> {}] : p \in {<<>>, <<"u1">>}}
    \cup
    {[type |-> "DEADLINE", title |-> <<"B">>, startAt |-> 2, status |-> "CONFIRMED",
      participants |-> p, createdById |-> {}] : p \in {<<>>, <<"u1">>}}

CalendarQueries ==
    [from : OptSet({2}), to : OptSet({1}), type : OptSet({"MEETING"}),
     status : {{}}, search : OptSet({<<"b">>}), limit : {{}}]

NoQuery == [from |-> {}, to |-> {}, type |-> {}, status |-> {}, search |-> {},
            limit |-> {}]

InitCalendar ==
    /\ tz = 0
    /\ rateLimitEnabled = FALSE
    /\ InitDb
    /\ InitIdle

NextCalendar ==
    \/ \E cookie \in {"u1", "a2", Ghost}, query \in CalendarQueries :
          CalendarGET_Filter(1, "c1", cookie, query)
    \/ CalendarGET_FindMany(1)
    \/ \E body \in CalendarListBodies : CalendarPOST_Create(1, "c1", "a1", body, FALSE)
    \/ \E body \in PermissionBodies({"u1"}, {"meetings", "schedule"}) :
          PermissionsPUT_FindUser(1, "c1", "a1", body)
    \/ PermissionsPUT_Upsert(1)

SpecCalendar == InitCalendar /\ [][NextCalendar]_vars

CreatedOrParticipates(user, i) ==
    items[i].createdById = user \/ <<i, user>> \in parts

\* C2: a calendar list answered to a caller whose calendar row has allLevel
\* NONE holds no item the caller neither created nor participates in, whatever
\* the from / to / type / status / search filters of the request.
C2_NoneNeverListsForeignItems ==
    (resp.op = "calendarGET" /\ resp.status = 200
        /\ HasAllLevelNone(resp.cookie, "meetings")) =>
        \A i \in resp.ids : i \in DOMAIN items /\ CreatedOrParticipates(resp.cookie, i)

\* C2 witness: u1, whose calendar row has allLevel NONE, lists without filters
\* while an item it neither created nor participates in is stored.
C2_Witness ==
    /\ resp.op = "calendarGET" /\ resp.status = 200 /\ resp.cookie = "u1"
    /\ HasAllLevelNone("u1", "meetings")
    /\ resp.body = {NoQuery}
    /\ resp.ids # {}
    /\ \E i \in DOMAIN items : ~CreatedOrParticipates("u1", i)

NoRowOrNone(user, module) ==
    <<user, module>> \in DOMAIN perms =>
        perms[<<user, module>>] = [myLevel |-> "NONE", allLevel |-> "NONE"]

RestrictedScope(user) ==
    /\ NoRowOrNone(user, "meetings") => getCalendarItemsFilter(user) = {user}
    /\ NoRowOrNone(user, "schedule") => getScheduleEntriesFilter(user) = {user}

DeniesEveryForeignRecord(user) ==
    NoRowOrNone(user, "meetings") =>
        \A owner \in UserIds, requiredLevel \in {"VIEW", "EDIT"} :
            checkCalendarPermission(user, owner, requiredLevel) <=> (owner = user)

ListWithoutRowIsRestricted ==
    (resp.op = "calendarGET" /\ resp.status = 200
        /\ <<resp.cookie, "meetings">> \notin DOMAIN perms) =>
        \A query \in resp.body : resp.ids = CalendarFindMany({resp.cookie}, query)

MutationOps ==
    {"calendarPOST", "calendarPATCH", "calendarDELETE",
     "schedulePOST", "schedulePATCH", "scheduleDELETE", "permissionsPUT"}

MutationCookies == {"a1", "a2", "u1"}

CalendarCreateBodies ==
    [type : {"MEETING"}, title : {<<"a">>}, startAt : {1}, status : {"DRAFT"},
     participants : {<<>>}, createdById : OptSet({"u1"})]

CalendarUpdateBodies ==
    [type : {{}}, title : {{<<"b">>}}, startAt : {{}}, status : {{}},
     participants : OptSet({<<"u1">>}), createdById : OptSet({"u1"})]

OwnerCreateBodies ==
    [date : {1}, userId : {"u1"}, startTime : {1}, endTime : {2},
     createdById : OptSet({"u1"})]

OwnerUpdateBodies ==
    [date : {{}}, userId : {{}}, startTime : {{}}, endTime : {{3}},
     createdById : OptSet({"u1"})]

MutationPermissionBodies ==
    [userId : {"u1"},
     permissions : {{[module |-> "meetings", myLevel |-> "VIEW", allLevel |-> "VIEW"]}}]

NextMutations ==
    \/ \E cookie \in MutationCookies, strictSchema \in BOOLEAN, body \in CalendarCreateBodies :
          CalendarPOST_Create(1, "c1", cookie, body, strictSchema)
    \/ \E cookie \in MutationCookies, strictSchema \in BOOLEAN,
          id \in 1..MaxItems, body \in CalendarUpdateBodies :
          CalendarPATCH_FindUnique(1, "c1", cookie, id, body, strictSchema)
    \/ CalendarPATCH_Update(1)
    \/ CalendarPATCH_DeleteMany(1)
    \/ CalendarPATCH_CreateMany(1)
    \/ CalendarPATCH_Refetch(1)
    \/ \E cookie \in MutationCookies, id \in 1..MaxItems :
          CalendarDELETE_FindUnique(1, "c1", cookie, id)
    \/ CalendarDELETE_Delete(1)
    \/ \E cookie \in MutationCookies, strictSchema \in BOOLEAN, body \in OwnerCreateBodies :
          SchedulePOST_FindFirst(1, "c1", cookie, body, strictSchema)
    \/ SchedulePOST_Create(1)
    \/ \E cookie \in MutationCookies, strictSchema \in BOOLEAN,
          id \in 1..MaxEntries, body \in OwnerUpdateBodies :
          SchedulePATCH_FindUnique(1, "c1", cookie, id, body, strictSchema)
    \/ SchedulePATCH_FindFirst(1)
    \/ SchedulePATCH_Update(1)
    \/ \E cookie \in MutationCookies, id \in 1..MaxEntries :
          ScheduleDELETE_FindUnique(1, "c1", cookie, id)
    \/ ScheduleDELETE_Delete(1)
    \/ \E cookie \in MutationCookies, body \in MutationPermissionBodies :
          PermissionsPUT_FindUser(1, "c1", cookie, body)
    \/ PermissionsPUT_Upsert(1)

SpecMutations == InitCalendar /\ [][NextMutations]_vars

IsUserRole(cookie) == cookie \in DOMAIN users /\ users[cookie] = "USER"

UserMutationAnswered403 ==
    (resp.op \in MutationOps /\ IsUserRole(resp.cookie)) => resp.status = 403

\* the request a step of slot 1 worked for: the one still running, or else the
\* one just answered
UserMutationChangesNothing ==
    LET acting == IF req'[1] = Idle THEN resp'.cookie ELSE req'[1].cookie
    IN  IsUserRole(acting) => dbVars' = dbVars

\* C1: a mutation request (POST / PATCH / DELETE on calendar items and schedule
\* entries, PUT on permissions) of a caller whose role is USER is answered 403
\* and changes no stored record.
C1_UserMutationForbidden ==
    []UserMutationAnswered403 /\ [][UserMutationChangesNothing]_vars

ItemOwnerKept ==
    \A i \in DOMAIN items' :
        IF i \in DOMAIN items
        THEN items'[i].createdById = items[i].createdById
        ELSE /\ items'[i].createdById = resp'.cookie
             /\ isAdmin(getCurrentUser(resp'.cookie))
             /\ resp'.createdBy = {resp'.cookie}

EntryOwnerKept ==
    \A e \in DOMAIN entries' :
        IF e \in DOMAIN entries
        THEN entries'[e].createdById = entries[e].createdById
        ELSE /\ entries'[e].createdById = resp'.cookie
             /\ isAdmin(getCurrentUser(resp'.cookie))
             /\ resp'.createdBy = {resp'.cookie}

\* C8: a new calendar item or schedule entry gets the admin whose request
\* created it as createdById, whatever createdById the body supplies, and no
\* later step changes the createdById of a stored record.
C8_CreatedByIsTheCreator == [][ItemOwnerKept /\ EntryOwnerKept]_vars

\* C8 witness: a2 has updated an item created by a1 with a body that names u1
\* as createdById; the item still belongs to a1.
C8_Witness ==
    /\ resp.op = "calendarPATCH" /\ resp.status = 200 /\ resp.cookie = "a2"
    /\ \E body \in resp.body : body.createdById = {"u1"} /\ body.title # {}
    /\ resp.id \in DOMAIN items
    /\ items[resp.id].createdById = "a1" /\ items[resp.id].title = <<"b">>
    /\ resp.createdBy = {"a1"}

(***************************************************************************)
(* SpecRate: two clients call a moderate-tier endpoint and the login       *)
(* endpoint while the clock moves and the store is swept.  c1 stops        *)
(* MaxOver requests after its moderate window is full.                     *)
(***************************************************************************)
InitRate ==
    /\ tz = 0
    /\ rateLimitEnabled = TRUE
    /\ InitDb
    /\ InitIdle

\* the client has sent fewer than cap requests in its running window
Budget(client, config, cap) ==
    \A e \in Lookup(store, RateKey(client, config)) :
        e.resetAt < now \/ e.count < cap

LoginBodies == [email : {"u1"}, password : {"pw", "wrong"}]

\* milliseconds a user lookup and a bcrypt comparison (cost 12) can take
DbDurations == {5}
HashDurations == {100, 300}

NextRate ==
    \/ Budget("c1", moderate, ModerateMax + MaxOver) /\ ScheduleGET_Filter(1, "c1", Ghost, {})
    \/ Budget("c2", moderate, 2) /\ ScheduleGET_Filter(1, "c2", Ghost, {})
    \/ \E body \in LoginBodies, dbMs \in DbDurations, hashMs \in HashDurations :
          Budget("c1", strict, StrictMax + 2) /\ AuthLogin(1, "c1", body, dbMs, hashMs)
    \/ Tick
    \/ Sweep

SpecRate == InitRate /\ [][NextRate]_vars

TierMax(op) == IF op \in {"login", "signup"} THEN 5 ELSE 100

InWindow(key) == key \in DOMAIN store /\ ~(store[key].resetAt < now)

\* a request counts once, under the key of its client and tier, and is
\* rejected exactly when it is beyond the first max of its window
RequestCountedAndJudged ==
    (now' = now /\ store' # store /\ DOMAIN store \subseteq DOMAIN store') =>
        \E key \in DOMAIN store' :
            /\ \A other \in DOMAIN store \ {key} : store'[other] = store[other]
            /\ key[2] = TierMax(resp'.op) /\ key[3] = 60000
            /\ IF InWindow(key)
               THEN store'[key] = [store[key] EXCEPT !.count = @ + 1]
               ELSE store'[key] = [count |-> 1, resetAt |-> now + 60000]
            /\ (resp'.status = 429) <=> (store'[key].count > TierMax(resp'.op))

\* neither the clock nor the sweep touches a window that is still running
RunningWindowKept ==
    (now' # now \/ ~(DOMAIN store \subseteq DOMAIN store')) =>
        \A key \in DOMAIN store :
            (~(store[key].resetAt < now')) => (key \in DOMAIN store' /\ store'[key] = store[key])

\* C9: with the limiter enabled, the n-th request of one client and one tier
\* inside one window is allowed when n <= max (100 moderate, 5 strict) and
\* answered 429 when n > max; requests of other clients and tiers, the clock
\* and the sweep do not change n.
C9_FirstMaxAllowed == [][RequestCountedAndJudged /\ RunningWindowKept]_vars

\* C9 witness: the 150th request of c1 to a moderate endpoint inside one window
\* has been rejected.
C9_Witness ==
    /\ resp.op = "scheduleGET" /\ resp.status = 429
    /\ InWindow(RateKey("c1", moderate))
    /\ store[RateKey("c1", moderate)].count = 150

(***************************************************************************)
(* SpecRetryAfter: one client calls every rate-limited handler inside one  *)
(* window.                                                                 *)
(***************************************************************************)
SignupBodies == [email : {"u1", "n1"}, password : {"pw"}, role : {{}}]

\* c1 stops one request after a window is full
ModerateBudget == Budget("c1", moderate, ModerateMax + 1)
StrictBudget == Budget("c1", strict, StrictMax + 1)

NextRetryAfter ==
    \/ ModerateBudget /\ CalendarGET_Filter(1, "c1", Ghost, NoQuery)
    \/ \E body \in CalendarCreateBodies :
          ModerateBudget /\ CalendarPOST_Create(1, "c1", Ghost, body, FALSE)
    \/ \E body \in CalendarUpdateBodies :
          ModerateBudget /\ CalendarPATCH_FindUnique(1, "c1", Ghost, 1, body, FALSE)
    \/ ModerateBudget /\ CalendarDELETE_FindUnique(1, "c1", Ghost, 1)
    \/ ModerateBudget /\ ScheduleGET_Filter(1, "c1", Ghost, {})
    \/ \E body \in OwnerCreateBodies :
          ModerateBudget /\ SchedulePOST_FindFirst(1, "c1", Ghost, body, FALSE)
    \/ \E body \in OwnerUpdateBodies :
          ModerateBudget /\ SchedulePATCH_FindUnique(1, "c1", Ghost, 1, body, FALSE)
    \/ ModerateBudget /\ ScheduleDELETE_FindUnique(1, "c1", Ghost, 1)
    \/ \E body \in MutationPermissionBodies :
          ModerateBudget /\ PermissionsPUT_FindUser(1, "c1", Ghost, body)
    \/ \E cookie \in {"a1", Ghost} :
          ModerateBudget /\ PermissionsGET(1, "c1", cookie)
    \/ \E cookie \in {"u1", Ghost} :
          ModerateBudget /\ UsersGET(1, "c1", cookie)
    \/ ModerateBudget /\ AuthLogout(1, "c1")
    \/ ModerateBudget /\ AuthMe(1, "c1", "u1")
    \/ \E body \in LoginBodies, dbMs \in DbDurations, hashMs \in HashDurations :
          StrictBudget /\ AuthLogin(1, "c1", body, dbMs, hashMs)
    \/ \E body \in SignupBodies, passwordStrong \in BOOLEAN :
          StrictBudget /\ AuthSignup_FindUnique(1, "c1", body, passwordStrong)
    \/ AuthSignup_Create(1)

SpecRetryAfter == InitRate /\ [][NextRetryAfter]_vars

\* C10: every 429 response carries the Retry-After header.
C10_Every429HasRetryAfter == resp.status = 429 => resp.retryAfter

(***************************************************************************)
(* Login: what a caller can see and what the handler does on the way.      *)
(* One client logs in with known and unknown emails, right and wrong       *)
(* passwords, and signs up new accounts; the rate limiter runs.            *)
(***************************************************************************)
AuthLoginBodies == [email : {"u1", "n1", ""}, password : {"pw", "wrong"}]

AuthSignupBodies == [email : {"n1", "n2"}, password : {"pw"}, role : {{}, {"ADMIN"}}]

AuthBudget == Budget("c1", strict, StrictMax + 1)

NextAuth ==
    \/ \E body \in AuthLoginBodies, dbMs \in DbDurations, hashMs \in HashDurations :
          AuthBudget /\ AuthLogin(1, "c1", body, dbMs, hashMs)
    \/ \E body \in AuthSignupBodies, passwordStrong \in BOOLEAN :
          AuthBudget /\ AuthSignup_FindUnique(1, "c1", body, passwordStrong)
    \/ AuthSignup_Create(1)
    \/ Tick

SpecAuth == InitRate /\ [][NextAuth]_vars

\* what the caller of a login request receives
LoginVisible(outcome) ==
    [status |-> outcome.status, code |-> outcome.code, setCookie |-> outcome.setCookie]

UnknownEmail(body) == loginSchema(body) /\ Lookup(users, body.email) = {}

WrongPassword(body) ==
    loginSchema(body) /\ Lookup(users, body.email) # {} /\ ~verifyPassword(body.password)

\* C11: a login with an email no user has and a login with a known email and
\* a wrong password receive the same status, the same body and the same
\* cookies, whatever the lookups and comparisons took; the response sent for
\* either is that one response.
C11_FailuresIndistinguishable ==
    /\ \A b1 \in AuthLoginBodies, b2 \in AuthLoginBodies :
         \A d1 \in DbDurations, d2 \in DbDurations :
           \A h1 \in HashDurations, h2 \in HashDurations :
              UnknownEmail(b1) /\ WrongPassword(b2)
                 => LoginVisible(LoginOutcome(b1, d1, h1)) = LoginVisible(LoginOutcome(b2, d2, h2))
    /\ \A body \in resp.body :
         resp.op = "login" /\ resp.status # 429 /\ (UnknownEmail(body) \/ WrongPassword(body))
            => resp.status = 200 /\ resp.code = "InvalidCredentials" /\ resp.setCookie = {}

C11_Witness ==
    /\ resp.op = "login"
    /\ resp.code = "InvalidCredentials"
    /\ \E body \in resp.body : UnknownEmail(body)
    /\ \E b2 \in AuthLoginBodies : WrongPassword(b2)

CredentialOutcome == resp.op = "login" /\ resp.code \in {"InvalidCredentials", "ok"}

KnownEmail(body) == loginSchema(body) /\ Lookup(users, body.email) # {}

\* C12: every login that reaches the credential check runs a password-hash
\* comparison: against the stored hash when the user exists, against the
\* fixed dummy hash when no user has the email.
C12_EveryLoginCompares ==
    \A body \in resp.body :
       CredentialOutcome
          => resp.compared = (IF KnownEmail(body) THEN {"stored"} ELSE {"dummy"})

\* the one comparison the handler does make: against the stored hash
LoginComparesStoredHash ==
    \A body \in resp.body :
       CredentialOutcome
          => resp.compared = (IF KnownEmail(body) THEN {"stored"} ELSE {})

\* the response times of an existing and a non-existing email may differ by
\* this much
ToleranceMs == 50

Distance(a, b) == IF a < b THEN b - a ELSE a - b

\* every credential response is sent at least MinResponseTime after
\* the handler took startTime
LoginFloorKept == CredentialOutcome => resp.elapsed >= MinResponseTime

\* C13: every credential response of a login is sent at least 200 ms after
\* credential handling began, and under the same lookup and comparison
\* durations the response for an existing email and the one for a
\* non-existing email are no more than the tolerance apart.
C13_FloorAndTolerance ==
    /\ LoginFloorKept
    /\ \A b1 \in AuthLoginBodies, b2 \in AuthLoginBodies :
         \A dbMs \in DbDurations, hashMs \in HashDurations :
            UnknownEmail(b1) /\ KnownEmail(b2)
               => Distance(LoginOutcome(b1, dbMs, hashMs).elapsed,
                           LoginOutcome(b2, dbMs, hashMs).elapsed) <= ToleranceMs

\* C14: every user a signup creates has role USER, whatever the payload says
\* about the role.
C14_SignupCreatesUser ==
    [][\A email \in DOMAIN users' \ DOMAIN users :
          /\ req[1].op = "signup"
          /\ users'[email] = "USER"]_vars

C14_Witness ==
    /\ resp.op = "signup"
    /\ resp.status = 201
    /\ \E body \in resp.body :
          /\ body.role = {"ADMIN"}
          /\ Lookup(users, body.email) = {"USER"}

(***************************************************************************)
(* Listing calendar items with a limit parameter in the URL.               *)
(***************************************************************************)
LimitQueries == {[NoQuery EXCEPT !.limit = l] : l \in OptSet({MaxRows, 10 * MaxRows})}

NextLimit ==
    \/ \E cookie \in {"a1", "u1"}, query \in LimitQueries :
          CalendarGET_Filter(1, "c1", cookie, query)
    \/ CalendarGET_FindMany(1)
    \/ \E body \in CalendarListBodies : CalendarPOST_Create(1, "c1", "a1", body, FALSE)

SpecLimit == InitCalendar /\ [][NextLimit]_vars

AsksTooMany(query) == \E l \in query.limit : l > MaxRows

\* C15: a list request that asks for more than 1000 rows is answered with a
\* 400 validation error and is not served.
C15_LargeLimitRejected ==
    \A query \in resp.body :
       resp.op = "calendarGET" /\ AsksTooMany(query)
          => resp.status = 400 /\ resp.code = "InvalidQuery"

\* what the handler does: the limit parameter changes nothing
LimitIgnored ==
    \A query \in resp.body :
       resp.op = "calendarGET" /\ resp.status = 200
          => resp.ids = CalendarFindMany(getCalendarItemsFilter(resp.cookie), NoQuery)

(***************************************************************************)
(* PATCH and DELETE of an admin on an id no record has.                    *)
(***************************************************************************)
\* the step answers an admin's PATCH or DELETE whose id names no record
MissingIdAnswered ==
    /\ req[1] = Idle /\ req'[1] = Idle
    /\ isAdmin(getCurrentUser(resp'.cookie))
    /\ \/ resp'.op \in {"calendarPATCH", "calendarDELETE"} /\ resp'.id \notin DOMAIN items
       \/ resp'.op \in {"schedulePATCH", "scheduleDELETE"} /\ resp'.id \notin DOMAIN entries

\* an id that names no record changes no record
MissingIdChangesNothing == [][MissingIdAnswered => dbVars' = dbVars]_vars

\* C16: an admin's PATCH or DELETE for a calendar item id or a schedule entry
\* id that does not exist is answered with status 404 and changes no stored
\* record.
C16_MissingIdIs404 ==
    [][MissingIdAnswered => resp'.status = 404 /\ dbVars' = dbVars]_vars

(***************************************************************************)
(* requireCalendarItemAccess, in every state of the items, participants    *)
(* and permission rows the calendar handlers reach.                        *)
(***************************************************************************)
RequiredLevels == {"VIEW", "EDIT"}

\* the allLevel of the user's row for the meetings module, if there is a row
MeetingsAllLevel(user) == {p.allLevel : p \in Lookup(perms, <<user, "meetings">>)}

AccessRule(user, itemId, requiredLevel) ==
    \/ items[itemId].createdById = user
    \/ requiredLevel = "VIEW" /\ <<itemId, user>> \in parts
    \/ MeetingsAllLevel(user) = {"EDIT"}
    \/ requiredLevel = "VIEW" /\ MeetingsAllLevel(user) = {"VIEW"}

\* C17: requireCalendarItemAccess allows exactly when the user created the
\* item, or the required level is VIEW and the user is a participant, or the
\* user's allLevel is EDIT, or the required level is VIEW and allLevel is VIEW;
\* otherwise it throws the forbidden error; for a missing item it throws
\* not-found whatever the permissions are.
C17_AccessRule ==
    \A user \in DOMAIN users, itemId \in 1..(MaxItems + 1), requiredLevel \in RequiredLevels :
       LET thrown == requireCalendarItemAccess(user, itemId, requiredLevel)
       IN  IF itemId \notin DOMAIN items
           THEN thrown = {NotFoundError("NotFound")}
           ELSE IF AccessRule(user, itemId, requiredLevel)
           THEN thrown = {}
           ELSE thrown = {ForbiddenError("Forbidden")}

C17_Witness ==
    \E itemId \in DOMAIN items :
       /\ items[itemId].createdById # "u1"
       /\ <<itemId, "u1">> \in parts
       /\ MeetingsAllLevel("u1") = {"NONE"}
       /\ requireCalendarItemAccess("u1", itemId, "VIEW") = {}
       /\ requireCalendarItemAccess("u1", itemId, "EDIT") = {ForbiddenError("Forbidden")}
       /\ requireCalendarItemAccess("u1", itemId + 1, "VIEW") = {NotFoundError("NotFound")}

(***************************************************************************)
(* POST /api/admin/init-db and the middleware in front of it.  The route   *)
(* reads no session and has no rate limit; the middleware lets a request   *)
(* to a path outside /api/auth through when its session cookie is not      *)
(* empty.  One step per database statement.                                *)
(***************************************************************************)
middleware(cookie) == cookie # ""

InitDbAdmin == "a1"

InitDbUsers == {"u1", "u2", "u3", "u4", "u5"}

InitDbModules == <<"meetings", "deadlines", "schedule">>

\* the rows of createMany: user, module, myLevel, allLevel
InitDbUserPermissions ==
    {<<"u1", "meetings", "EDIT", "VIEW">>, <<"u1", "deadlines", "VIEW", "NONE">>,
     <<"u1", "schedule", "VIEW", "VIEW">>, <<"u2", "meetings", "VIEW", "VIEW">>,
     <<"u2", "deadlines", "EDIT", "VIEW">>, <<"u2", "schedule", "VIEW", "NONE">>,
     <<"u3", "meetings", "VIEW", "NONE">>, <<"u3", "deadlines", "VIEW", "NONE">>,
     <<"u3", "schedule", "EDIT", "EDIT">>, <<"u4", "meetings", "NONE", "NONE">>,
     <<"u4", "deadlines", "NONE", "NONE">>, <<"u4", "schedule", "NONE", "NONE">>,
     <<"u5", "meetings", "VIEW", "VIEW">>, <<"u5", "deadlines", "VIEW", "VIEW">>,
     <<"u5", "schedule", "VIEW", "VIEW">>}

InitDbError(slot) == Reply(slot, 500, "DatabaseInitializationError")

InitDbPOST_Count(s, cookie) ==
    LET slot == [Idle EXCEPT !.op = "initDb", !.cookie = cookie]
    IN  /\ req[s] = Idle
        /\ UNCHANGED <<rlVars, dbVars, envVars>>
        /\ IF ~middleware(cookie) THEN Finish(s, Reply(slot, 307, "Redirect"))
           ELSE IF DOMAIN users # {} THEN Finish(s, Reply(slot, 200, "AlreadyInitialized"))
           ELSE Goto(s, [slot EXCEPT !.pc = "createAdmin"])

InitDbPOST_CreateAdmin(s) ==
    /\ req[s].op = "initDb" /\ req[s].pc = "createAdmin"
    /\ UNCHANGED <<rlVars, envVars, perms, items, parts, entries, nextItem, nextEntry>>
    /\ IF InitDbAdmin \in DOMAIN users
       THEN Finish(s, InitDbError(req[s])) /\ UNCHANGED users
       ELSE /\ users' = Put(users, InitDbAdmin, "ADMIN")
            /\ Goto(s, [req[s] EXCEPT !.pc = "createUsers", !.ex = InitDbUsers])

\* the creates of Promise.all complete one at a time, in any order; a create
\* that meets a taken email rejects and the handler answers 500
InitDbPOST_CreateUser(s) ==
    /\ req[s].op = "initDb" /\ req[s].pc = "createUsers"
    /\ UNCHANGED <<rlVars, envVars, perms, items, parts, entries, nextItem, nextEntry>>
    /\ \E u \in req[s].ex :
        IF u \in DOMAIN users
        THEN Finish(s, InitDbError(req[s])) /\ UNCHANGED users
        ELSE /\ users' = Put(users, u, "USER")
             /\ IF req[s].ex = {u}
                THEN Goto(s, [req[s] EXCEPT !.pc = "createPermission", !.ex = {}, !.id = 1])
                ELSE Goto(s, [req[s] EXCEPT !.ex = req[s].ex \ {u}])

\* for (const module of modules) await db.userPermission.create(...)
InitDbPOST_CreatePermission(s) ==
    LET key == <<InitDbAdmin, InitDbModules[req[s].id]>>
    IN  /\ req[s].op = "initDb" /\ req[s].pc = "createPermission"
        /\ UNCHANGED <<rlVars, envVars, users, items, parts, entries, nextItem, nextEntry>>
        /\ IF key \in DOMAIN perms
           THEN Finish(s, InitDbError(req[s])) /\ UNCHANGED perms
           ELSE /\ perms' = Put(perms, key, [myLevel |-> "EDIT", allLevel |-> "EDIT"])
                /\ IF req[s].id = Len(InitDbModules)
                   THEN Goto(s, [req[s] EXCEPT !.pc = "createMany", !.id = 0])
                   ELSE Goto(s, [req[s] EXCEPT !.id = req[s].id + 1])

InitDbPOST_CreateMany(s) ==
    /\ req[s].op = "initDb" /\ req[s].pc = "createMany"
    /\ UNCHANGED <<rlVars, envVars, users, items, parts, entries, nextItem, nextEntry>>
    /\ IF \E row \in InitDbUserPermissions : <<row[1], row[2]>> \in DOMAIN perms
       THEN Finish(s, InitDbError(req[s])) /\ UNCHANGED perms
       ELSE /\ perms' = [key \in DOMAIN perms \cup {<<row[1], row[2]>> : row \in InitDbUserPermissions} |->
                           IF key \in DOMAIN perms THEN perms[key]
                           ELSE LET row == CHOOSE r \in InitDbUserPermissions : <<r[1], r[2]>> = key
                                IN  [myLevel |-> row[3], allLevel |-> row[4]]]
            /\ Finish(s, Reply(req[s], 200, "ok"))

(***************************************************************************)
(* Who writes permission rows: a deployment whose database has its tables  *)
(* and no rows yet, init-db requests and permission PUTs.                  *)
(***************************************************************************)
InitFresh ==
    /\ tz = 0
    /\ rateLimitEnabled = FALSE
    /\ users = EmptyTable
    /\ perms = EmptyTable
    /\ items = EmptyTable
    /\ parts = {}
    /\ entries = EmptyTable
    /\ nextItem = 1
    /\ nextEntry = 1
    /\ InitIdle

NextPermissionWriters ==
    \/ \E cookie \in {"", Ghost, "u1"} : InitDbPOST_Count(1, cookie)
    \/ InitDbPOST_CreateAdmin(1)
    \/ InitDbPOST_CreateUser(1)
    \/ InitDbPOST_CreatePermission(1)
    \/ InitDbPOST_CreateMany(1)
    \/ \E cookie \in {"a1", "u1", Ghost}, body \in PermissionBodies({"u1"}, {"meetings"}) :
          PermissionsPUT_FindUser(2, "c1", cookie, body)
    \/ PermissionsPUT_Upsert(2)

SpecPermissionWriters == InitFresh /\ [][NextPermissionWriters]_vars

\* the step is one of a permissions PUT whose session is an ADMIN
StepOfAdminPut ==
    \E s \in Slots :
       /\ req'[s] # req[s]
       /\ req[s].op = "permissionsPUT"
       /\ isAdmin(getCurrentUser(req[s].cookie))

\* C18: every permission row is created or updated by a request authenticated
\* as an ADMIN through the permissions PUT; no request that is unauthenticated
\* or made by a USER creates or changes a permission row.
C18_OnlyAdminPutWritesPermissions ==
    [][perms' # perms => StepOfAdminPut]_vars

(***************************************************************************)
(* Both lists under the restricted scope: admins create entries and items  *)
(* for themselves and for others, u1 and a2 list, u1's rows are set.       *)
(***************************************************************************)
ScopeEntryBodies ==
    [date : Days, userId : ScheduleOwners, startTime : {1}, endTime : {2},
     createdById : {{}}]

ScopeItemBodies ==
    {[type |-> "MEETING", title |-> <<"a">>, startAt |-> 1, status |-> "DRAFT",
      participants |-> p, createdById |-> {}] : p \in {<<>>, <<"u1">>}}

ScopePermissionBodies ==
    {[userId |-> "u1",
      permissions |-> {[module |-> m, myLevel |-> "VIEW", allLevel |-> "VIEW"]}] :
        m \in {"meetings", "schedule"}}

NextScope ==
    \/ \E cookie \in {"u1", "a2"}, day \in Days : ScheduleGET_Filter(1, "c1", cookie, {day})
    \/ ScheduleGET_FindMany(1)
    \/ \E cookie \in {"u1", "a2"} : CalendarGET_Filter(1, "c1", cookie, NoQuery)
    \/ CalendarGET_FindMany(1)
    \/ \E cookie \in {"a1", "a2"}, body \in ScopeEntryBodies :
          SchedulePOST_FindFirst(1, "c1", cookie, body, FALSE)
    \/ SchedulePOST_Create(1)
    \/ \E cookie \in {"a1", "a2"}, body \in ScopeItemBodies :
          CalendarPOST_Create(1, "c1", cookie, body, FALSE)
    \/ \E body \in ScopePermissionBodies : PermissionsPUT_FindUser(1, "c1", "a1", body)
    \/ PermissionsPUT_Upsert(1)

SpecScope == InitCalendar /\ [][NextScope]_vars

\* the user's row of the module does not open all rows
Restricted(user, module) ==
    \A p \in Lookup(perms, <<user, module>>) : p.allLevel \notin {"VIEW", "EDIT"}

RestrictedScheduleList ==
    resp.op = "scheduleGET" /\ resp.status = 200 /\ Restricted(resp.cookie, "schedule")

RestrictedCalendarList ==
    resp.op = "calendarGET" /\ resp.status = 200 /\ Restricted(resp.cookie, "meetings")

RestrictedItemsAreOwnOrShared ==
    RestrictedCalendarList =>
        resp.ids = {i \in DOMAIN items : CreatedOrParticipates(resp.cookie, i)}

\* C19: under the owned-and-participated scope the schedule list of a day
\* holds an entry exactly when the caller is the user the entry schedules
\* (userId), and the calendar list holds an item exactly when the caller
\* created it or is one of its participants.
C19_RestrictedListsByUserId ==
    /\ RestrictedScheduleList =>
          \A day \in resp.body :
              resp.ids = {e \in DOMAIN entries : /\ entries[e].userId = resp.cookie
                                                 /\ OnRequestedDay(entries[e].date, day)}
    /\ RestrictedItemsAreOwnOrShared

C19_Witness ==
    /\ RestrictedScheduleList
    /\ \E e \in resp.ids : entries[e].createdById # resp.cookie
    /\ \E e \in DOMAIN entries :
          /\ entries[e].createdById = resp.cookie
          /\ entries[e].userId # resp.cookie
          /\ \A day \in resp.body : OnRequestedDay(entries[e].date, day)
    /\ \E i \in DOMAIN items : <<i, "u1">> \in parts

\* the statement with the entry's creator in the place of its user
C19_RestrictedListsByCreator ==
    /\ RestrictedScheduleList =>
          \A day \in resp.body :
              resp.ids = {e \in DOMAIN entries : /\ entries[e].createdById = resp.cookie
                                                 /\ OnRequestedDay(entries[e].date, day)}
    /\ RestrictedItemsAreOwnOrShared

(***************************************************************************)
(* Partial updates of schedule entries, one request at a time: an admin    *)
(* creates entries and patches dates and times, some fields left out.      *)
(***************************************************************************)
PatchCreateBodies ==
    [date : Days, userId : {"u1"}, startTime : {1}, endTime : {2, 3},
     createdById : {{}}]

PatchBodies ==
    [date : OptSet(Days), userId : {{}}, startTime : OptSet(Minutes),
     endTime : OptSet(Minutes), createdById : {{}}]

NextPatch ==
    \/ \E body \in PatchCreateBodies : SchedulePOST_FindFirst(1, "c1", "a1", body, FALSE)
    \/ SchedulePOST_Create(1)
    \/ \E id \in 1..MaxEntries, body \in PatchBodies :
          SchedulePATCH_FindUnique(1, "c1", "a1", id, body, FALSE)
    \/ SchedulePATCH_FindFirst(1)
    \/ SchedulePATCH_Update(1)

SpecPatch == InitSchedule /\ [][NextPatch]_vars

\* the step answers a PATCH of a stored entry
PatchAnswered == resp'.op = "schedulePATCH" /\ resp'.id \in DOMAIN entries

\* the stored entry with the fields the body supplies
PatchMerged(stored, body) ==
    [date |-> IF body.date = {} THEN stored.date ELSE CHOOSE ts \in {NewDate(d) : d \in body.date} : TRUE,
     userId |-> IF body.userId = {} THEN stored.userId ELSE CHOOSE u \in body.userId : TRUE,
     startTime |-> IF body.startTime = {} THEN stored.startTime ELSE CHOOSE t \in body.startTime : TRUE,
     endTime |-> IF body.endTime = {} THEN stored.endTime ELSE CHOOSE t \in body.endTime : TRUE,
     createdById |-> stored.createdById]

\* C20: a schedule PATCH is checked on the merged times, a supplied time
\* against the other one as stored: it is rejected when the merged endTime is
\* not after the merged startTime; a rejected PATCH leaves every entry as it
\* was; an accepted PATCH writes the supplied fields and keeps the stored
\* values of the fields it leaves out.
C20_PatchMergesWithStored ==
    [][PatchAnswered =>
          \A body \in resp'.body :
             LET stored == entries[resp'.id]
                 merged == PatchMerged(stored, body)
             IN  /\ merged.endTime <= merged.startTime => resp'.status = 400
                 /\ resp'.status # 200 => entries' = entries
                 /\ resp'.status = 200 =>
                       entries' = [entries EXCEPT ![resp'.id] = merged]]_vars

C20_Witness ==
    /\ resp.op = "schedulePATCH" /\ resp.status = 400 /\ resp.code = "TimeRange"
    /\ resp.id \in DOMAIN entries
    /\ \E body \in resp.body :
          /\ body.startTime = {} /\ body.endTime # {}
          /\ \A t \in body.endTime : t <= entries[resp.id].startTime

\* an accepted PATCH that supplies one time only
PatchOneTimeAccepted ==
    /\ resp.op = "schedulePATCH" /\ resp.status = 200
    /\ \E body \in resp.body :
          /\ body.startTime # {} /\ body.endTime = {} /\ body.date = {}
          /\ entries[resp.id].startTime \in body.startTime

(***************************************************************************)
(* Replacing the participants of a calendar item, one request at a time:   *)
(* an admin creates items titled "a" and patches them with the title "b"   *)
(* and a participants list that may repeat a user or name no user.         *)
(***************************************************************************)
ReplaceCreateBodies ==
    [type : {"MEETING"}, title : {<<"a">>}, startAt : {1}, status : {"DRAFT"},
     participants : {<<>>, <<"u1">>}, createdById : {{}}]

ReplaceLists == {<<>>, <<"a2">>, <<"u1", "u1">>, <<Ghost>>}

ReplaceBodies ==
    [type : {{}}, title : {{<<"b">>}}, startAt : {{}}, status : {{}},
     participants : OptSet(ReplaceLists), createdById : {{}}]

NextReplace ==
    \/ \E body \in ReplaceCreateBodies : CalendarPOST_Create(1, "c1", "a1", body, FALSE)
    \/ \E id \in 1..MaxItems, body \in ReplaceBodies :
          CalendarPATCH_FindUnique(1, "c1", "a1", id, body, FALSE)
    \/ CalendarPATCH_Update(1)
    \/ CalendarPATCH_DeleteMany(1)
    \/ CalendarPATCH_CreateMany(1)
    \/ CalendarPATCH_Refetch(1)

SpecReplace == InitCalendar /\ [][NextReplace]_vars

ParticipantsOf(itemId) == {p[2] : p \in {q \in parts : q[1] = itemId}}

\* the last step answered a PATCH whose createMany failed
ReplaceFailed == resp.op = "calendarPATCH" /\ resp.code \in {"P2002", "P2003"}

\* C21: a calendar item PATCH with a participants list is not all-or-nothing:
\* when the insert of the new participants fails (a user named twice, a user
\* that does not exist) the request ends in an error, the item's scalar fields
\* are already updated and the item has no participants left; a PATCH that
\* succeeds leaves exactly the listed participants.
C21_FailedReplaceLeavesPartialState ==
    /\ ReplaceFailed =>
          /\ resp.status = 500
          /\ resp.id \in DOMAIN items
          /\ \A body \in resp.body : items[resp.id].title \in body.title
          /\ ParticipantsOf(resp.id) = {}
    /\ (resp.op = "calendarPATCH" /\ resp.status = 200) =>
          \A body \in resp.body : \A participants \in body.participants :
             /\ ~HasDuplicate(participants)
             /\ ParticipantsOf(resp.id) = Range(participants)

C21_Witness ==
    /\ ReplaceFailed
    /\ resp.code = "P2002"
    /\ \E body \in resp.body : \E participants \in body.participants :
          HasDuplicate(participants)
    /\ items[resp.id].title = <<"b">>
    /\ ParticipantsOf(resp.id) = {}

(***************************************************************************)
(* Participant replacement and delete of calendar items, two requests at   *)
(* a time, their statements interleaved.                                   *)
(***************************************************************************)
RaceItemBodies ==
    [type : {"MEETING"}, title : {<<"a">>}, startAt : {1}, status : {"DRAFT"},
     participants : {<<"u1">>}, createdById : {{}}]

RaceReplaceBodies ==
    [type : {{}}, title : {{<<"b">>}}, startAt : {{}}, status : {{}},
     participants : {{<<"a2">>}, {<<>>}}, createdById : {{}}]

NextReplaceRace ==
    \E s \in Slots :
        \/ \E body \in RaceItemBodies : CalendarPOST_Create(s, "c1", "a1", body, FALSE)
        \/ \E id \in 1..MaxItems, body \in RaceReplaceBodies :
              CalendarPATCH_FindUnique(s, "c1", "a1", id, body, FALSE)
        \/ CalendarPATCH_Update(s)
        \/ CalendarPATCH_DeleteMany(s)
        \/ CalendarPATCH_CreateMany(s)
        \/ CalendarPATCH_Refetch(s)
        \/ \E id \in 1..MaxItems : CalendarDELETE_FindUnique(s, "c1", "a2", id)
        \/ CalendarDELETE_Delete(s)

SpecReplaceRace == InitCalendar /\ [][NextReplaceRace]_vars

\* C22: every participant row refers to an existing calendar item: a delete
\* takes the item's participant rows with it, and a participant replacement
\* interleaved with a delete of the same item leaves no row for the deleted
\* item.
C22_ParticipantsHaveItems ==
    \A p \in parts : p[1] \in DOMAIN items

\* C22 witness: the createMany of a replacement meets an item deleted after
\* the replacement began
C22_Witness ==
    /\ resp.op = "calendarPATCH" /\ resp.code = "P2003"
    /\ resp.id \notin DOMAIN items
    /\ \E body \in resp.body : \E participants \in body.participants :
          participants # <<>> /\ Range(participants) \subseteq DOMAIN users
    /\ ParticipantsOf(resp.id) = {}

(***************************************************************************)
(* Two clients on both tiers.  Client c1 is the browser of u1 and c2 the   *)
(* browser of a1, so a response names the client it went to.               *)
(***************************************************************************)
FrameClients == {"c1", "c2"}

FrameUser(client) == IF client = "c1" THEN "u1" ELSE "a1"

FrameLoginBodies(client) == [email : {FrameUser(client)}, password : {"pw"}]

NextFrame ==
    \/ \E client \in FrameClients :
          Budget(client, moderate, 2) /\ AuthMe(1, client, FrameUser(client))
    \/ \E client \in FrameClients, dbMs \in DbDurations, hashMs \in HashDurations :
          \E body \in FrameLoginBodies(client) :
             Budget(client, strict, StrictMax + 1) /\ AuthLogin(1, client, body, dbMs, hashMs)
    \/ Tick

SpecFrame == InitRate /\ [][NextFrame]_vars

\* the client and tier of the request the response answers
FrameRequester(r) ==
    LET user == IF r.op = "login" THEN {body.email : body \in r.body} ELSE {r.cookie}
    IN  <<CHOOSE client \in FrameClients : FrameUser(client) \in user,
          IF r.op = "login" THEN strict ELSE moderate>>

\* what the next request of the client on the tier would be told
RateOutcome(client, config) ==
    [allowed |-> checkRateLimit(client, config).allowed,
     remaining |-> checkRateLimit(client, config).remaining]

\* C23: a rate-limit check for one client and tier changes only the counter
\* of that client and tier: the counter, the allow/deny outcome and the
\* remaining quota of every other client and of the same client on the other
\* tier are what they were.
C23_OtherCountersUntouched ==
    [][now' = now =>
          /\ Lookup(store', RateKey(FrameRequester(resp')[1], FrameRequester(resp')[2]))
                # Lookup(store, RateKey(FrameRequester(resp')[1], FrameRequester(resp')[2]))
          /\ \A client \in FrameClients, config \in {strict, moderate} :
                <<client, config>> # FrameRequester(resp') =>
                   /\ Lookup(store', RateKey(client, config)) = Lookup(store, RateKey(client, config))
                   /\ RateOutcome(client, config)' = RateOutcome(client, config)]_vars

\* C23 witness: c1 is rejected on the strict tier while c1 on the moderate
\* tier and c2 on both tiers have counters of their own
C23_Witness ==
    /\ resp.op = "login" /\ resp.status = 429
    /\ FrameRequester(resp)[1] = "c1"
    /\ \A client \in FrameClients, config \in {strict, moderate} :
          RateKey(client, config) \in DOMAIN store
    /\ checkRateLimit("c1", moderate).allowed
    /\ checkRateLimit("c2", strict).allowed

(***************************************************************************)
(* One client on the strict tier over several windows: it logs in, is      *)
(* rejected, keeps trying, and the clock and the sweep run.                *)
(***************************************************************************)
NextWindow ==
    \/ \E body \in LoginBodies, dbMs \in DbDurations, hashMs \in HashDurations :
          Budget("c1", strict, StrictMax + 3) /\ AuthLogin(1, "c1", body, dbMs, hashMs)
    \/ Tick
    \/ Sweep

SpecWindow == InitRate /\ [][NextWindow]_vars

WindowKey == RateKey("c1", strict)

\* the step is a request of c1 on the strict tier
WindowRequest == now' = now /\ resp'.op = "login" /\ WindowKey \in DOMAIN store'
                    /\ Lookup(store', WindowKey) # Lookup(store, WindowKey)

\* C24: the first request after the reset time of the client's window opens
\* a new window counted as 1 and is allowed, however many requests the old
\* window rejected; a request inside a window, rejected or not, leaves the
\* window's reset time where it was.
C24_ExpiredWindowReopens ==
    [][WindowRequest =>
          IF InWindow(WindowKey)
          THEN /\ store'[WindowKey].resetAt = store[WindowKey].resetAt
               /\ store'[WindowKey].count = store[WindowKey].count + 1
          ELSE /\ store'[WindowKey] = [count |-> 1, resetAt |-> now + WindowMs]
               /\ resp'.status # 429
               /\ resp'.retryAfter = FALSE]_vars

\* C24 witness: the last answer to c1 was a 429, the window it was rejected in
\* is over, and the request c1 sends now is allowed and opens a window counted
\* as 1
C24_Witness ==
    /\ resp.op = "login" /\ resp.status = 429
    /\ WindowKey \in DOMAIN store
    /\ store[WindowKey].count > StrictMax
    /\ store[WindowKey].resetAt < now
    /\ checkRateLimit("c1", strict).allowed
    /\ checkRateLimit("c1", strict).store[WindowKey] = [count |-> 1, resetAt |-> now + WindowMs]

\* the windows of a store that are still running
Running(st) == [k \in {k \in DOMAIN st : ~(st[k].resetAt < now)} |-> st[k]]

\* the step is a run of the sweep
SweepRun == ~(DOMAIN store \subseteq DOMAIN store')

\* C25: the sweep removes only entries whose window is over and keeps the
\* others as they are, and a request sent after the sweep is answered as the
\* same request sent in its place: same allow/deny outcome, same remaining
\* quota, same running windows afterwards.  Swept and unswept stores that
\* agree on their running windows therefore answer every sequence of requests
\* alike.
C25_SweepInvisible ==
    [][SweepRun =>
          /\ now' = now /\ resp' = resp
          /\ \A key \in DOMAIN store :
                IF store[key].resetAt < now
                THEN key \notin DOMAIN store'
                ELSE key \in DOMAIN store' /\ store'[key] = store[key]
          /\ \A client \in {"c1", "c2"}, config \in {strict, moderate} :
                /\ RateOutcome(client, config)' = RateOutcome(client, config)
                /\ Running(checkRateLimit(client, config).store)'
                      = Running(checkRateLimit(client, config).store)]_vars

\* C25 witness: the sweep has dropped the window c1 was rejected in, and the
\* next request of c1 opens a window counted as 1
C25_Witness ==
    /\ resp.op = "login" /\ resp.status = 429
    /\ store = EmptyTable
    /\ checkRateLimit("c1", strict).allowed
    /\ checkRateLimit("c1", strict).remaining = StrictMax - 1

(***************************************************************************)
(* Permission PUTs of two admins at once, for users that exist and one     *)
(* that does not, naming one or two modules.                               *)
(***************************************************************************)
PutPermissions ==
    {[module |-> m, myLevel |-> l[1], allLevel |-> l[2]] :
        m \in {"meetings", "schedule"}, l \in {<<"VIEW", "VIEW">>, <<"EDIT", "NONE">>}}

\* one module, two modules, one module named twice
PutPermissionSets ==
    {{perm} : perm \in PutPermissions}
    \cup {{[module |-> "meetings", myLevel |-> "VIEW", allLevel |-> "VIEW"],
           [module |-> m, myLevel |-> "EDIT", allLevel |-> "NONE"]} :
             m \in {"meetings", "schedule"}}

PutBodies == [userId : {"u1", "a2", Ghost}, permissions : PutPermissionSets]

NextPut ==
    \E s \in Slots :
        \/ \E body \in PutBodies : PermissionsPUT_FindUser(s, "c1", "a1", body)
        \/ PermissionsPUT_Upsert(s)

SpecPut == InitCalendar /\ [][NextPut]_vars

\* the rows a PUT names
NamedRows(body) == {<<body.userId, perm.module>> : perm \in body.permissions}

ChangedRows ==
    {key \in DOMAIN perms \cup DOMAIN perms' : Lookup(perms', key) # Lookup(perms, key)}

\* C26: a permissions PUT for user U changes only rows (U, m) of modules m its
\* payload names, and only to levels the payload names for m; rows of other
\* users and of modules not named stay as they are; rows are keyed by (user,
\* module) of existing users; a PUT that names a user that does not exist
\* changes no row.
C26_PutChangesNamedRowsOnly ==
    [][perms' # perms =>
          \E s \in Slots : \E body \in req[s].body :
             /\ req'[s] # req[s]
             /\ req[s].op = "permissionsPUT"
             /\ body.userId \in DOMAIN users
             /\ ChangedRows \subseteq NamedRows(body)
             /\ \A key \in ChangedRows :
                   \E perm \in body.permissions :
                      /\ perm.module = key[2]
                      /\ perms'[key] = [myLevel |-> perm.myLevel, allLevel |-> perm.allLevel]
             /\ DOMAIN perms' \subseteq (DOMAIN users) \X Modules]_vars

\* C26 witness: a PUT for u1 naming the schedule module only has answered
\* while u1 has a meetings row and a2 has rows
C26_Witness ==
    /\ resp.op = "permissionsPUT" /\ resp.status = 200
    /\ \E body \in resp.body :
          body.userId = "u1" /\ {perm.module : perm \in body.permissions} = {"schedule"}
    /\ <<"u1", "meetings">> \in DOMAIN perms
    /\ <<"a2", "schedule">> \in DOMAIN perms
    /\ perms[<<"u1", "meetings">>] # perms[<<"u1", "schedule">>]

\* a PUT that names a user that does not exist is answered with an error
PutForMissingUser ==
    /\ resp.op = "permissionsPUT" /\ resp.code = "UserNotFound"
    /\ perms # EmptyTable

(***************************************************************************)
(* The calendar list and the rows of the meetings and deadlines modules:   *)
(* a1 creates meetings and deadlines, sets u1's rows of both modules, u1   *)
(* and a2 list with and without a type filter.                             *)
(***************************************************************************)
DeadlinePermissionBodies ==
    {[userId |-> "u1",
      permissions |-> {[module |-> m, myLevel |-> l[1], allLevel |-> l[2]]}] :
        m \in {"meetings", "deadlines"},
        l \in {<<"NONE", "NONE">>, <<"VIEW", "VIEW">>, <<"EDIT", "EDIT">>}}

DeadlineQueries == {[NoQuery EXCEPT !.type = t] : t \in OptSet({"MEETING", "DEADLINE"})}

NextDeadlines ==
    \/ \E cookie \in {"u1", "a2"}, query \in DeadlineQueries :
          CalendarGET_Filter(1, "c1", cookie, query)
    \/ CalendarGET_FindMany(1)
    \/ \E body \in CalendarListBodies : CalendarPOST_Create(1, "c1", "a1", body, FALSE)
    \/ \E body \in DeadlinePermissionBodies : PermissionsPUT_FindUser(1, "c1", "a1", body)
    \/ PermissionsPUT_Upsert(1)

SpecDeadlines == InitCalendar /\ [][NextDeadlines]_vars

\* what the list holds when the meetings row alone decides
ListByMeetingsRow(user, query) ==
    {i \in DOMAIN items :
        /\ \/ MeetingsAllLevel(user) \cap {"VIEW", "EDIT"} # {}
           \/ CreatedOrParticipates(user, i)
        /\ \A type \in query.type : items[i].type = type}

OnlyDeadlinesRowsChange ==
    /\ perms' # perms
    /\ \A key \in ChangedRows : key[2] = "deadlines"

\* C27: the calendar list holds, for meetings and deadlines alike, the items
\* the caller's row of the meetings module admits, and a change of rows of the
\* deadlines module changes the list of no user under no type filter.
C27_MeetingsRowDecidesList ==
    [][/\ (resp.op = "calendarGET" /\ resp.status = 200)' =>
            \A query \in resp'.body : resp'.ids = ListByMeetingsRow(resp.cookie, query)'
       /\ OnlyDeadlinesRowsChange =>
            \A user \in DOMAIN users, query \in DeadlineQueries :
               CalendarFindMany(getCalendarItemsFilter(user), query)' =
                  CalendarFindMany(getCalendarItemsFilter(user), query)]_vars

\* C27 witness: u1 holds all-level VIEW on deadlines and no all-level on
\* meetings, lists deadlines and is not given a deadline of another user
C27_Witness ==
    /\ resp.op = "calendarGET" /\ resp.status = 200 /\ resp.cookie = "u1"
    /\ \E p \in Lookup(perms, <<"u1", "deadlines">>) : p.allLevel = "VIEW"
    /\ MeetingsAllLevel("u1") \cap {"VIEW", "EDIT"} = {}
    /\ \E query \in resp.body : query.type = {"DEADLINE"}
    /\ \E i \in DOMAIN items : items[i].type = "DEADLINE" /\ i \notin resp.ids
    /\ \E i \in resp.ids : items[i].type = "DEADLINE"

(***************************************************************************)
(* The lists of an administrator: a1 and a2 create entries and items, a1   *)
(* sets the rows of the administrator a2 and of the user u1, both list.    *)
(***************************************************************************)
AdminScopeEntryBodies ==
    [date : {1}, userId : ScheduleOwners, startTime : {1}, endTime : {2}, createdById : {{}}]

AdminScopePermissionBodies ==
    {[userId |-> u,
      permissions |-> {[module |-> m, myLevel |-> "VIEW", allLevel |-> l]}] :
        u \in {"a2", "u1"}, m \in {"meetings", "schedule"}, l \in {"NONE", "VIEW"}}

NextAdminScope ==
    \/ \E cookie \in {"u1", "a2"} : ScheduleGET_Filter(1, "c1", cookie, {1})
    \/ ScheduleGET_FindMany(1)
    \/ \E cookie \in {"u1", "a2"} : CalendarGET_Filter(1, "c1", cookie, NoQuery)
    \/ CalendarGET_FindMany(1)
    \/ \E cookie \in {"a1", "a2"}, body \in AdminScopeEntryBodies :
          SchedulePOST_FindFirst(1, "c1", cookie, body, FALSE)
    \/ SchedulePOST_Create(1)
    \/ \E body \in ScopeItemBodies : CalendarPOST_Create(1, "c1", "a1", body, FALSE)
    \/ \E body \in AdminScopePermissionBodies : PermissionsPUT_FindUser(1, "c1", "a1", body)
    \/ PermissionsPUT_Upsert(1)

SpecAdminScope == InitCalendar /\ [][NextAdminScope]_vars

Admins == {u \in DOMAIN users : users[u] = "ADMIN"}

AdminListIsOwn ==
    /\ resp.cookie \in Admins /\ RestrictedScheduleList =>
          resp.ids = {e \in DOMAIN entries : entries[e].userId = resp.cookie}
    /\ resp.cookie \in Admins /\ RestrictedCalendarList =>
          resp.ids = {i \in DOMAIN items : CreatedOrParticipates(resp.cookie, i)}

\* the scope of a list is a function of the caller's row, not of the role
ScopeIgnoresRole ==
    \A admin \in Admins, user \in DOMAIN users \ Admins :
        /\ Lookup(perms, <<admin, "schedule">>) = Lookup(perms, <<user, "schedule">>) =>
              (getScheduleEntriesFilter(admin) = {} <=> getScheduleEntriesFilter(user) = {})
        /\ Lookup(perms, <<admin, "meetings">>) = Lookup(perms, <<user, "meetings">>) =>
              (getCalendarItemsFilter(admin) = {} <=> getCalendarItemsFilter(user) = {})

\* C28: an administrator whose row of the module is missing or has allLevel
\* NONE is given, by the calendar list and by the schedule list, only the rows
\* of the administrator's own (created or participating items, own entries),
\* the same scope a USER with the same rows has.
C28_AdminRoleDoesNotWidenLists ==
    AdminListIsOwn /\ ScopeIgnoresRole

\* C28 witness: the administrator a2, with a schedule row of allLevel NONE,
\* has listed the day and was not given the entry of u1 that exists
C28_Witness ==
    /\ resp.op = "scheduleGET" /\ resp.status = 200 /\ resp.cookie = "a2"
    /\ \E p \in Lookup(perms, <<"a2", "schedule">>) : p.allLevel = "NONE"
    /\ Lookup(perms, <<"u1", "schedule">>) = Lookup(perms, <<"a2", "schedule">>)
    /\ \E e \in DOMAIN entries : entries[e].userId = "u1" /\ e \notin resp.ids
    /\ \E e \in resp.ids : entries[e].userId = "a2"
    /\ \E i \in DOMAIN items : ~CreatedOrParticipates("a2", i)

(***************************************************************************)
(* Sessions: the browser c1 signs up, logs in and logs out; the client c2  *)
(* presents cookie values to /api/auth/me and to the calendar list.        *)
(***************************************************************************)
SessionCookies == {"u1", "n1", Ghost, ""}

SessionLoginBodies == [email : {"u1", "n1"}, password : {"pw", "wrong"}]

SessionSignupBodies == [email : {"n1"}, password : {"pw"}, role : {{}}]

NextSession ==
    \/ \E body \in SessionLoginBodies, dbMs \in DbDurations, hashMs \in HashDurations :
          Budget("c1", strict, StrictMax + 1) /\ AuthLogin(1, "c1", body, dbMs, hashMs)
    \/ \E body \in SessionSignupBodies :
          Budget("c1", strict, StrictMax + 1) /\ AuthSignup_FindUnique(1, "c1", body, TRUE)
    \/ AuthSignup_Create(1)
    \/ Budget("c1", moderate, 2) /\ AuthLogout(1, "c1")
    \/ \E cookie \in SessionCookies : Budget("c2", moderate, 3) /\ AuthMe(1, "c2", cookie)
    \/ \E cookie \in SessionCookies :
          Budget("c2", moderate, 3) /\ CalendarGET_Filter(1, "c2", cookie, NoQuery)
    \/ CalendarGET_FindMany(1)

SpecSession == InitRate /\ [][NextSession]_vars

\* the user a cookie value stands for
UserOfCookie(cookie) == {u \in DOMAIN users : u = cookie}

LoggedOut == resp.op = "logout" /\ resp.status = 200

\* C29: a request is treated as user U exactly when its cookie value is the id
\* of an existing user U; login and signup hand out that id; a logout answers
\* with the cookie cleared and changes nothing on the server that the
\* resolution of a cookie reads, so every id still resolves to its user.
C29_CookieIsTheSession ==
    [][/\ (resp.op = "me" /\ resp.status = 200)' => resp'.users = UserOfCookie(resp.cookie)'
       /\ (resp.op = "calendarGET" /\ resp.status # 429)' =>
             (resp'.status = 200 <=> UserOfCookie(resp.cookie)' # {})
       /\ (resp.op \in {"login", "signup"})' => resp'.setCookie \subseteq DOMAIN users'
       /\ LoggedOut' =>
             /\ resp'.setCookie = {""}
             /\ dbVars' = dbVars
             /\ \A cookie \in SessionCookies : getCurrentUser(cookie)' = getCurrentUser(cookie)
             /\ \A u \in DOMAIN users : getCurrentUser(u)' = {u}]_vars

\* C29 witness: the browser c1 has logged out within the running window and
\* the client c2, presenting the id of n1, is answered as n1
C29_Witness ==
    /\ resp.op = "me" /\ resp.status = 200 /\ resp.cookie = "n1" /\ resp.users = {"n1"}
    /\ \E e \in Lookup(store, RateKey("c1", moderate)) : e.count >= 1 /\ e.resetAt >= now

(***************************************************************************)
(* What the PATCH and DELETE endpoints tell a caller who is not an         *)
(* administrator about the ids that exist.                                 *)
(***************************************************************************)
ByIdOps == {"schedulePATCH", "scheduleDELETE", "calendarPATCH", "calendarDELETE"}

\* what the caller receives: the response without the echo of the request
Answer(r) == [r EXCEPT !.id = NoResp.id, !.body = NoResp.body]

\* the answer to a caller who is not an administrator, from the operation and
\* the cookie alone
NonAdminAnswer(op, cookie) ==
    [NoResp EXCEPT !.op = op, !.cookie = cookie, !.status = 500,
                   !.code = IF cookie \in DOMAIN users THEN "Forbidden" ELSE "Unauthorized"]

NonAdminById == resp.op \in ByIdOps /\ requireAdmin(resp.cookie) # {}

\* C30: the answer of a PATCH or DELETE to a caller who is not an
\* administrator is a function of the operation and the caller alone: it is
\* the same for an id that exists and for one that does not, and for a valid
\* and an invalid body; such a request changes no table.
C30_NonAdminLearnsNoIds ==
    [][NonAdminById' =>
          /\ Answer(resp') = NonAdminAnswer(resp'.op, resp'.cookie)
          /\ dbVars' = dbVars]_vars

\* C30 witness: the user u1 has sent a PATCH for a schedule entry that exists
\* while another id names no entry
C30_Witness ==
    /\ NonAdminById /\ resp.op = "schedulePATCH" /\ resp.cookie = "u1"
    /\ resp.id \in DOMAIN entries
    /\ \E id \in 1..MaxEntries : id \notin DOMAIN entries

====
